---- MODULE Spec2Model ----
(***************************************************************************)
(* Model of the logo-decal feature of the product showcase:                *)
(*   materials_logo.js (src/unnamed/part_005), its caller main-modular.js  *)
(*   (src/unnamed/part_001) and materials.js.                              *)
(*                                                                         *)
(* The specifications of this module.                                      *)
(*   Spec          the logo state machine: model load, logo uploads (start, *)
(*                 decode, apply) and logo reset, over an object graph of   *)
(*                 meshes, materials, textures and images.                  *)
(*   SpecFeatures  Spec with the map checkboxes, the region colour and the  *)
(*                 target colour, which also clone materials.               *)
(*   SpecCompose   the pixel arithmetic of composeLogoIntoOriginalTexture   *)
(*                 on small atlases.                                        *)
(*   SpecFn        the functions of part_005, one call each.                *)
(*   SpecViewer    model and scenario loads with their callbacks            *)
(*                 (SpecViewerFair: every load completes).                  *)
(*   SpecCinematic the takes cycle of the cinematic controller              *)
(*                 (SpecCinematicFair: frames keep coming).                 *)
(*   SpecRegion    the region highlight of main.js.                         *)
(*                                                                         *)
(* Conventions.  Object references are identifiers: a material, texture or *)
(* image is its index in the sequence `materials`, `textures` or `images`; *)
(* 0 is null.  UV coordinates are rationals with denominator UVDen; the    *)
(* bounds records carry their own denominator.  Texture rotation is 0 in   *)
(* every modelled texture, so the rotation branch of                       *)
(* computeUvBoundsForMaterial is not taken.                                *)
(***************************************************************************)
EXTENDS Integers, Sequences, FiniteSets, TLC

VARIABLES
  modelRoot,                  \* 0 = no model loaded, else the index of the loaded model
  meshes,                     \* the meshes under modelRoot, in traversal order
  materials,                  \* every material instance ever created
  textures,                   \* every texture ever created
  images,                     \* every image / canvas ever installed or returned
  material003OriginalMaps,    \* Map material -> original base map   (part_005:3)
  material003OriginalImages,  \* Map texture  -> original image      (part_005:4)
  materialRegistry,           \* registry built at load for per-material controls
  uploads,                    \* the logo uploads, in the order they were requested
  log,                        \* history: what the last replace traversal did, slot by slot
  lastOp,                     \* history: the handler that ran last
  loaded,                     \* history: the material instances as they were right after the load
  before,                     \* history: each slot's material, base map and image before the
                              \*          first replace since the load or the last reset
  afterFirst,                 \* history: each slot's material after the first complete replace
  cIn,                        \* SpecCompose: the input of the composition
  cOut,                       \* SpecCompose: the canvas it returns
  scene,                      \* the wrappers and scenario groups that are children of the scene
  loads,                      \* every loader.load call made so far, with its outcome
  viewer,                     \* modelRoot, scenarioRoot, the two currentScenarioKey, the overlay
  doneCalled,                 \* history: the model loads whose onDone has been called
  asked,                      \* history: the user's requests, counted, and the last of each kind
  cinematic,                  \* the closure state of createCinematicController (part_002:8-47)
  regionMaterials,            \* SpecRegion: the materials of the model with regions
  regionNameToMeshes,         \* main.js:71, region key -> meshes, a mesh being its slots
  activeRegionKey,            \* main.js:73
  highlightBefore             \* history: the materials before the highlight now shown

logoVars == <<modelRoot, meshes, materials, textures, images, material003OriginalMaps,
              material003OriginalImages, materialRegistry, uploads, log, lastOp, loaded,
              before, afterFirst>>
composeVars == <<cIn, cOut>>
viewerVars == <<scene, loads, viewer, doneCalled, asked>>
regionVars == <<regionMaterials, regionNameToMeshes, activeRegionKey, highlightBefore>>
appVars == <<viewerVars, cinematic, regionVars>>
vars == <<logoVars, composeVars, appVars>>

-----------------------------------------------------------------------------
(* Bounds of the model *)

MaxUploads == 2
\* uploaded logos are 1..MaxLogoSide pixels wide and high
MaxLogoSide == 3
\* rectangles handed to the image functions are 1..MaxRectSide pixels wide and high
MaxRectSide == 5

-----------------------------------------------------------------------------
(* Program constants *)

UVDen == 64
DefaultTexSize == 1024
TinyIslandPx == 64
TinyBoundsPx == 96
DedicatedSide == 512
SquareFitSize == 1200
MinRectPx == 8
\* coverage = 2.5 as CoverageNum / 2
CoverageNum == 5
White == 16777215
Black == 0
MaskThreshold == 28
PadPercent == 8

-----------------------------------------------------------------------------
(* Arithmetic helpers *)

Min2(a, b) == IF a < b THEN a ELSE b
Max2(a, b) == IF a > b THEN a ELSE b
Abs(a) == IF a < 0 THEN -a ELSE a

\* Math.round(n / d) for d > 0: the nearest integer, halves towards +infinity.
Round(n, d) == (2 * n + d) \div (2 * d)

SetMin(S) == CHOOSE x \in S : \A y \in S : x <= y
SetMax(S) == CHOOSE x \in S : \A y \in S : x >= y

-----------------------------------------------------------------------------
(* Object constructors.  A material's name is reduced to whether it matches *)
(* /material[\s._-]*0*03/i; 'emissive' in mat is the field hasEmissive.     *)

NoSnap == [set |-> FALSE, hasEmissive |-> FALSE, emissiveHex |-> -1,
           emissiveIntensity |-> -1, emissiveMap |-> 0]

NoUserData == [clonedForLogo |-> FALSE, clonedForPerMaterial |-> FALSE,
               clonedForToggle |-> FALSE, clonedForRegion |-> FALSE,
               clonedForTargetColor |-> FALSE, origEmissiveSnap |-> NoSnap]

StandardMaterial(name003, map, normalMap, roughnessMap, metalnessMap, aoMap, emissive, emissiveIntensity, emissiveMap, color) ==
  [name003 |-> name003, map |-> map, normalMap |-> normalMap,
   roughnessMap |-> roughnessMap, metalnessMap |-> metalnessMap, aoMap |-> aoMap,
   hasEmissive |-> TRUE, emissive |-> emissive, emissiveIntensity |-> emissiveIntensity,
   emissiveMap |-> emissiveMap, color |-> color, userData |-> NoUserData]

BasicMaterial(name003, map, aoMap, color) ==
  [name003 |-> name003, map |-> map, normalMap |-> 0,
   roughnessMap |-> 0, metalnessMap |-> 0, aoMap |-> aoMap,
   hasEmissive |-> FALSE, emissive |-> 0, emissiveIntensity |-> 0,
   emissiveMap |-> 0, color |-> color, userData |-> NoUserData]

\* repeat, offset and center in units of 1/UVDen
Texture(image, flipY, repU, repV, offU, offV) ==
  [image |-> image, flipY |-> flipY, repU |-> repU, repV |-> repV,
   offU |-> offU, offV |-> offV, rotation |-> 0, cenU |-> 0, cenV |-> 0]

\* kind: "file" (decoded from the model), "composite", "dedicated", "square", "flat";
\* base: the image drawn or sampled first; logo: the upload drawn on top (0 = none)
Image(kind, w, h, base, logo) ==
  [kind |-> kind, w |-> w, h |-> h, base |-> base, logo |-> logo]

Geometry(hasUv, uv, hasIndex, index, groups) ==
  [hasUv |-> hasUv, uv |-> uv, hasIndex |-> hasIndex, index |-> index, groups |-> groups]

Group(start, count, materialIndex) ==
  [start |-> start, count |-> count, materialIndex |-> materialIndex]

Mesh(isArray, material, geometry) ==
  [isArray |-> isArray, material |-> material, geometry |-> geometry]

-----------------------------------------------------------------------------
(* The models the loader can deliver (glTF contents), UVs in 1/UVDen.       *)

\* a quad covering 0.25 x 0.25 of the atlas (256 x 256 px of 1024)
GeomLargeIsland ==
  Geometry(TRUE, << <<8, 8>>, <<24, 8>>, <<8, 24>>, <<24, 24>> >>, FALSE, <<>>, <<>>)

\* two groups: slot 0 is a 32 x 48 px island, slot 1 a large one
GeomTwoGroups ==
  Geometry(TRUE,
           << <<32, 32>>, <<34, 32>>, <<32, 35>>, <<0, 40>>, <<30, 40>>, <<0, 60>> >>,
           TRUE, <<0, 1, 2, 3, 4, 5>>,
           << Group(0, 3, 0), Group(3, 3, 1) >>)

\* a quad covering 0.125 x 0.125 (128 px raw on 1024)
GeomMediumIsland ==
  Geometry(TRUE, << <<16, 16>>, <<24, 16>>, <<16, 24>>, <<24, 24>> >>,
           TRUE, <<0, 1, 2, 2, 1, 3>>, <<>>)

\* groups exist but none carries material slot 0
GeomNoMatchingGroup ==
  Geometry(TRUE, << <<8, 8>>, <<24, 8>>, <<8, 24>> >>, TRUE, <<0, 1, 2>>,
           << Group(0, 3, 1) >>)

GeomNoUv == Geometry(FALSE, <<>>, FALSE, <<>>, <<>>)

FileImages ==
  << Image("file", 1024, 1024, 0, 0),     \* 1 base-colour atlas
     Image("file", 1024, 1024, 0, 0),     \* 2 normal map
     Image("file", 512, 512, 0, 0),       \* 3 packed occlusion/roughness/metalness
     Image("file", 256, 256, 0, 0),       \* 4 emissive map
     Image("file", 1024, 512, 0, 0) >>    \* 5 second atlas

FileTextures ==
  << Texture(1, FALSE, UVDen, UVDen, 0, 0),  \* 1 atlas
     Texture(2, FALSE, UVDen, UVDen, 0, 0),  \* 2 normal
     Texture(3, FALSE, UVDen, UVDen, 0, 0),  \* 3 ORM
     Texture(4, FALSE, UVDen, UVDen, 0, 0),  \* 4 emissive
     Texture(0, TRUE, UVDen, UVDen, 0, 0),   \* 5 texture whose image is missing
     Texture(5, TRUE, 32, 32, 16, 16) >>     \* 6 second atlas, repeat 0.5, offset 0.25

\* 1, 2: one "Material.003" instance shared by two meshes, beside another material.
\*       1 is loaded as a kosha4 model, 2 as any other model.
\* 3:    slots whose UV-aware path fails: missing image, no group for the slot, no UVs.
\* 4:    an island that is small only after the texture transform, and a material
\*       without base map.
ModelFile(k) ==
  CASE k \in {1, 2} ->
        [kosha4 |-> (k = 1),
         materials |-> << StandardMaterial(TRUE, 1, 2, 3, 3, 0, 5, 1, 4, 7),
                          StandardMaterial(FALSE, 1, 2, 0, 0, 3, 0, 1, 0, 9) >>,
         meshes |-> << Mesh(FALSE, <<1>>, GeomLargeIsland),
                       Mesh(TRUE, <<1, 2>>, GeomTwoGroups) >>]
    [] k = 3 ->
        [kosha4 |-> TRUE,
         materials |-> << BasicMaterial(TRUE, 5, 0, 7),
                          StandardMaterial(TRUE, 1, 2, 0, 0, 0, 0, 1, 0, 7) >>,
         meshes |-> << Mesh(FALSE, <<1>>, GeomLargeIsland),
                       Mesh(FALSE, <<2>>, GeomNoMatchingGroup),
                       Mesh(FALSE, <<2>>, GeomNoUv) >>]
    [] OTHER ->
        [kosha4 |-> TRUE,
         materials |-> << StandardMaterial(TRUE, 6, 2, 3, 3, 3, 5, 2, 0, 7),
                          StandardMaterial(TRUE, 0, 0, 0, 0, 0, 0, 1, 0, 9) >>,
         meshes |-> << Mesh(FALSE, <<1>>, GeomMediumIsland),
                       Mesh(TRUE, <<2>>, GeomLargeIsland) >>]

ModelFiles == 1..4

-----------------------------------------------------------------------------
(* UV Bounds Resolver *)

NoBounds == [ok |-> FALSE, minU |-> 0, minV |-> 0, maxU |-> 0, maxV |-> 0, den |-> 1]

\* part_005:72 / :99 - the groups, or one group over the whole index buffer
GeometryGroups(geom, materialIndex) ==
  IF Len(geom.groups) > 0 THEN geom.groups
  ELSE << Group(0, IF geom.hasIndex THEN Len(geom.index) ELSE Len(geom.uv), materialIndex) >>

\* faulty variant: when no group carries the slot, every group is traversed
VisitedVerticesWithFallback(geom, materialIndex) ==
  LET gs == GeometryGroups(geom, materialIndex)
      matching == { gi \in 1..Len(gs) :
                      gs[gi].materialIndex < 0 \/ gs[gi].materialIndex = materialIndex }
      used == IF matching = {} THEN 1..Len(gs) ELSE matching
  IN  { vi \in 0..(Len(geom.uv) - 1) :
          \E gi \in used :
            \E a \in gs[gi].start..(gs[gi].start + gs[gi].count - 1) :
              IF geom.hasIndex THEN a < Len(geom.index) /\ geom.index[a + 1] = vi ELSE a = vi }

\* the vertex numbers (0-based) whose UV sample the loops of part_005:73-87 read;
\* a group with a numeric materialIndex other than the requested one is skipped
\* (a materialIndex < 0 stands for "not a number")
VisitedVertices(geom, materialIndex) ==
  LET gs == GeometryGroups(geom, materialIndex) IN
  { vi \in 0..(Len(geom.uv) - 1) :
      \E gi \in 1..Len(gs) :
        /\ gs[gi].materialIndex < 0 \/ gs[gi].materialIndex = materialIndex
        /\ \E a \in gs[gi].start..(gs[gi].start + gs[gi].count - 1) :
             IF geom.hasIndex
               THEN a < Len(geom.index) /\ geom.index[a + 1] = vi
               ELSE a = vi }

BoundsOf(us, vs, den) ==
  [ok |-> TRUE, minU |-> SetMin(us), minV |-> SetMin(vs),
   maxU |-> SetMax(us), maxV |-> SetMax(vs), den |-> den]

computeRawUvBoundsForMaterial(geom, materialIndex) ==
  IF ~geom.hasUv THEN NoBounds
  ELSE LET vis == VisitedVertices(geom, materialIndex) IN
       IF vis = {} THEN NoBounds
       ELSE BoundsOf({ geom.uv[vi + 1][1] : vi \in vis },
                     { geom.uv[vi + 1][2] : vi \in vis }, UVDen)

\* faulty variant: the transform applied to the corners of the raw bounds
computeUvBoundsFromRawCorners(geom, materialIndex, texture) ==
  LET raw == computeRawUvBoundsForMaterial(geom, materialIndex) IN
  IF ~raw.ok THEN NoBounds
  ELSE [ok |-> TRUE, minU |-> raw.minU * texture.repU + texture.offU * UVDen,
        minV |-> raw.minV * texture.repV + texture.offV * UVDen,
        maxU |-> raw.maxU * texture.repU + texture.offU * UVDen,
        maxV |-> raw.maxV * texture.repV + texture.offV * UVDen, den |-> UVDen * UVDen]

\* each sample scaled by repeat, then offset (rotation is 0); denominators UVDen^2
computeUvBoundsForMaterial(geom, materialIndex, texture) ==
  IF ~geom.hasUv THEN NoBounds
  ELSE LET vis == VisitedVertices(geom, materialIndex) IN
       IF vis = {} THEN NoBounds
       ELSE BoundsOf({ geom.uv[vi + 1][1] * texture.repU + texture.offU * UVDen : vi \in vis },
                     { geom.uv[vi + 1][2] * texture.repV + texture.offV * UVDen : vi \in vis },
                     UVDen * UVDen)

-----------------------------------------------------------------------------
(* The object graph threaded through one synchronous traversal.             *)
(* maps / imgs are the two Maps of part_005:3-4 as sets of <<key, value>>.  *)

Graph == [meshes |-> meshes, materials |-> materials, textures |-> textures,
          images |-> images, maps |-> material003OriginalMaps,
          imgs |-> material003OriginalImages, registry |-> materialRegistry,
          log |-> <<>>, aborted |-> FALSE]

MapHas(map, key) == \E e \in map : e[1] = key
MapGet(map, key) == (CHOOSE e \in map : e[1] = key)[2]
\* faulty variant: map.set(key, value) without the has() test
MapSetAlways(map, key, value) == { e \in map : e[1] # key } \cup {<<key, value>>}

\* if (!map.has(key)) map.set(key, value)
MapSetIfAbsent(map, key, value) == IF MapHas(map, key) THEN map ELSE map \cup {<<key, value>>}

\* img.width || img.videoWidth || 0 of a texture's image (0 when there is no image)
ImageWidth(g, tex) == IF g.textures[tex].image = 0 THEN 0 ELSE g.images[g.textures[tex].image].w
ImageHeight(g, tex) == IF g.textures[tex].image = 0 THEN 0 ELSE g.images[g.textures[tex].image].h

\* Array.isArray(child.material) ? child.material[i] : child.material
SlotMaterial(g, k, i) == g.meshes[k].material[i + 1]

\* what console.log / console.warn report for a slot (mesh, material, method), with
\* the base map the slot's material had when the slot was reached and that map's image
LogEntry(g, k, i, method) ==
  LET original == g.materials[SlotMaterial(g, k, i)].map IN
  [mesh |-> k, slot |-> i, method |-> method, original |-> original,
   image |-> IF original = 0 THEN 0 ELSE g.textures[original].image]

-----------------------------------------------------------------------------
(* PBR Channel Neutralizer, part_005:241-324 (object level: which texture   *)
(* gets a new, flattened canvas)                                            *)

\* handle(tex, kind): a fresh canvas holding the old image with the rectangle
\* flattened becomes the texture's image once it is drawn
NeutralizeHandle(g, tex, ctxOk) ==
  IF tex = 0 \/ ImageWidth(g, tex) = 0 \/ ImageHeight(g, tex) = 0 \/ ~ctxOk THEN g
  ELSE [g EXCEPT
          !.images = Append(@, Image("flat", ImageWidth(g, tex), ImageHeight(g, tex),
                                     g.textures[tex].image, 0)),
          !.textures[tex].image = Len(g.images) + 1]

neutralizePbrMapsForUvRect(g, k, i, bounds, ctxOk) ==
  LET mat == SlotMaterial(g, k, i) IN
  IF mat = 0 \/ ~bounds.ok THEN g
  ELSE LET g1 == NeutralizeHandle(g, g.materials[mat].normalMap, ctxOk)
           g2 == NeutralizeHandle(g1, g.materials[mat].roughnessMap, ctxOk)
           g3 == NeutralizeHandle(g2, g.materials[mat].metalnessMap, ctxOk)
       IN  NeutralizeHandle(g3, g.materials[mat].aoMap, ctxOk)

-----------------------------------------------------------------------------
(* Decal compositor, object level                                           *)

\* part_005:171-177, 190-193: what makes composeLogoIntoOriginalTexture throw
ComposeThrows(g, geom, i, original, ctxOk) ==
  \/ g.textures[original].image = 0
  \/ ImageWidth(g, original) = 0 \/ ImageHeight(g, original) = 0
  \/ ~computeUvBoundsForMaterial(geom, i, g.textures[original]).ok
  \/ ~ctxOk

\* part_005:364-375: the decision for the dedicated-texture path
IslandPx(lo, hi, den, texSize) == Round(Abs(hi - lo) * texSize, den)

\* faulty variant: the rule on the raw island alone
TinyIslandRawOnly(rawUv, boundsTransformed, texW, texH) ==
  LET islandPxW == IF rawUv.ok THEN IslandPx(rawUv.minU, rawUv.maxU, rawUv.den, texW) ELSE 0
      islandPxH == IF rawUv.ok THEN IslandPx(rawUv.minV, rawUv.maxV, rawUv.den, texH) ELSE 0
  IN  islandPxW * islandPxH > 0 /\ (islandPxW < TinyIslandPx \/ islandPxH < TinyIslandPx)

TinyIsland(rawUv, boundsTransformed, texW, texH) ==
  LET islandPxW == IF rawUv.ok THEN IslandPx(rawUv.minU, rawUv.maxU, rawUv.den, texW) ELSE 0
      islandPxH == IF rawUv.ok THEN IslandPx(rawUv.minV, rawUv.maxV, rawUv.den, texH) ELSE 0
      bw == IslandPx(boundsTransformed.minU, boundsTransformed.maxU, boundsTransformed.den, texW)
      bh == IslandPx(boundsTransformed.minV, boundsTransformed.maxV, boundsTransformed.den, texH)
  IN  \/ islandPxW * islandPxH > 0 /\ (islandPxW < TinyIslandPx \/ islandPxH < TinyIslandPx)
      \/ boundsTransformed.ok /\ bw > 0 /\ bh > 0 /\ (bw < TinyBoundsPx \/ bh < TinyBoundsPx)

\* new THREE.CanvasTexture(canvas) with flipY set and the transform of `original`
\* copied by copyTextureTransform (part_005:16-33)
CanvasTextureLike(g, original, image, flipY) ==
  IF original = 0 THEN Texture(image, flipY, UVDen, UVDen, 0, 0)
  ELSE [g.textures[original] EXCEPT !.image = image, !.flipY = flipY]

\* part_005:450-452 and 455-457: the centred square-fit canvas as base map
InstallSquareFit(g, k, i, original, flipY, up, method) ==
  LET mat == SlotMaterial(g, k, i) IN
  [g EXCEPT
     !.images = Append(@, Image("square", SquareFitSize, SquareFitSize, 0, up)),
     !.textures = Append(@, CanvasTextureLike(g, original, Len(g.images) + 1, flipY)),
     !.materials[mat].map = Len(g.textures) + 1,
     !.log = Append(@, LogEntry(g, k, i, method))]

\* faulty variant: the new texture keeps the transform copied from the original
InstallDedicatedNoRetarget(g, k, i, original, rawUv, boundsTransformed, up, ctx) ==
  LET g1 == neutralizePbrMapsForUvRect(g, k, i,
                                       IF boundsTransformed.ok THEN boundsTransformed ELSE rawUv,
                                       ctx.helper)
  IN  [g1 EXCEPT
         !.images = Append(@, Image("dedicated", DedicatedSide, DedicatedSide, 0, up)),
         !.textures = Append(@, CanvasTextureLike(g1, original, Len(g1.images) + 1,
                                                  g1.textures[original].flipY)),
         !.materials[SlotMaterial(g, k, i)].map = Len(g1.textures) + 1]

\* part_005:378-415, 419-441: the dedicated 512 x 512 texture of a tiny island
InstallDedicated(g, k, i, original, rawUv, boundsTransformed, up, ctx) ==
  LET mat == SlotMaterial(g, k, i)
      sampled == IF boundsTransformed.ok /\ g.textures[original].image # 0 /\ ctx.helper
                   THEN g.textures[original].image ELSE 0
      g1 == neutralizePbrMapsForUvRect(g, k, i,
                                       IF boundsTransformed.ok THEN boundsTransformed ELSE rawUv,
                                       ctx.helper)
      aux == Len(g1.images) + 1
      newTex == CanvasTextureLike(g1, original, aux, g1.textures[original].flipY)
      placed == IF rawUv.ok
                  THEN [newTex EXCEPT !.repU = Abs(rawUv.maxU - rawUv.minU),
                                      !.repV = Abs(rawUv.maxV - rawUv.minV),
                                      !.offU = rawUv.minU, !.offV = rawUv.minV,
                                      !.rotation = 0, !.cenU = 0, !.cenV = 0]
                  ELSE newTex
  IN  [g1 EXCEPT
         !.images = Append(@, Image("dedicated", DedicatedSide, DedicatedSide, sampled, up)),
         !.textures = Append(@, placed),
         !.materials[mat].map = Len(g1.textures) + 1]

\* faulty variant: the logo is drawn straight into the image the texture already has
InstallCompositeInPlace(g, k, i, original, up) ==
  [g EXCEPT
     !.images[g.textures[original].image] =
        Image("composite", ImageWidth(g, original), ImageHeight(g, original),
              g.textures[original].image, up),
     !.imgs = MapSetIfAbsent(@, original, g.textures[original].image),
     !.materials[SlotMaterial(g, k, i)].map = original]

\* part_005:417, 443-444: compose into a copy of the atlas, then swap the image
InstallComposite(g, k, i, original, up) ==
  LET mat == SlotMaterial(g, k, i)
      composed == Len(g.images) + 1
  IN  [g EXCEPT
         !.images = Append(@, Image("composite", ImageWidth(g, original),
                                    ImageHeight(g, original), g.textures[original].image, up)),
         !.imgs = MapSetIfAbsent(@, original, g.textures[original].image),
         !.textures[original].image = composed,
         !.materials[mat].map = original]

\* part_005:360-460 for one slot whose (cloned) material is `mat`; ctx says which
\* of the canvases created here get a 2D context.  An exception thrown by the
\* fallback itself is not caught: it ends the traversal.
ApplyBaseMap(g, k, i, up, ctx) ==
  LET mat == SlotMaterial(g, k, i)
      geom == g.meshes[k].geometry
      original == g.materials[mat].map
      uncaught == [g EXCEPT !.aborted = TRUE, !.log = Append(@, LogEntry(g, k, i, "uncaught"))]
      g1 ==
        IF original # 0 /\ geom.hasUv THEN
          LET rawUv == computeRawUvBoundsForMaterial(geom, i)
              boundsTransformed == computeUvBoundsForMaterial(geom, i, g.textures[original])
              texW == IF ImageWidth(g, original) = 0 THEN DefaultTexSize
                      ELSE ImageWidth(g, original)
              texH == IF ImageHeight(g, original) = 0 THEN DefaultTexSize
                      ELSE ImageHeight(g, original)
              tinyIsland == TinyIsland(rawUv, boundsTransformed, texW, texH)
              threw == IF tinyIsland THEN ~ctx.main
                       ELSE ComposeThrows(g, geom, i, original, ctx.main)
          IN
          IF ~threw THEN
            [(IF tinyIsland
                THEN InstallDedicated(g, k, i, original, rawUv, boundsTransformed, up, ctx)
                ELSE InstallComposite(g, k, i, original, up))
             EXCEPT !.log = Append(@, LogEntry(g, k, i, IF tinyIsland THEN "dedicated-texture"
                                                                   ELSE "uv-composite"))]
          ELSE IF ctx.fb
            THEN InstallSquareFit(g, k, i, original, g.textures[original].flipY, up,
                                  "fallback canvas")
            ELSE uncaught
        ELSE IF ctx.fb
          THEN InstallSquareFit(g, k, i, original, TRUE, up, "fallback-square")
          ELSE [uncaught EXCEPT !.log = Append(g.log, LogEntry(g, k, i, "uncaught square"))]
  IN  IF g1.aborted THEN g1 ELSE [g1 EXCEPT !.materials[mat].color = White]

-----------------------------------------------------------------------------
(* Material isolation: clone on first use, snapshots, restore               *)

\* faulty variant: the marker is set on the instance found in the slot, no clone is made
MarkWithoutClone(g, k, i) ==
  [g EXCEPT !.materials[SlotMaterial(g, k, i)].userData.clonedForLogo = TRUE]

\* faulty variant: a clone is made on every call, marked or not
AlwaysCloneForLogo(g, k, i) ==
  [g EXCEPT
     !.materials = Append(@, [g.materials[SlotMaterial(g, k, i)]
                                EXCEPT !.userData.clonedForLogo = TRUE]),
     !.meshes[k].material[i + 1] = Len(g.materials) + 1]

\* part_005:338-342: if the slot's material does not carry the marker, put a
\* marked clone into the slot (array entry or single material alike)
CloneForLogo(g, k, i) ==
  LET m == SlotMaterial(g, k, i) IN
  IF g.materials[m].userData.clonedForLogo THEN g
  ELSE [g EXCEPT
          !.materials = Append(@, [g.materials[m] EXCEPT !.userData.clonedForLogo = TRUE]),
          !.meshes[k].material[i + 1] = Len(g.materials) + 1]

\* part_005:344-356: remember the emissive state once, then switch emission off
SnapshotAndClearEmissive(g, mat) ==
  LET m == g.materials[mat]
      snap == IF m.userData.origEmissiveSnap.set THEN m.userData.origEmissiveSnap
              ELSE [set |-> TRUE, hasEmissive |-> m.hasEmissive,
                    emissiveHex |-> IF m.hasEmissive THEN m.emissive ELSE -1,
                    emissiveIntensity |-> IF m.hasEmissive THEN m.emissiveIntensity ELSE -1,
                    emissiveMap |-> IF m.hasEmissive THEN m.emissiveMap ELSE 0]
  IN  [g EXCEPT !.materials[mat] =
         [m EXCEPT !.userData.origEmissiveSnap = snap,
                   !.emissiveMap = IF m.hasEmissive THEN 0 ELSE @,
                   !.emissive = IF m.hasEmissive THEN Black ELSE @,
                   !.emissiveIntensity = IF m.hasEmissive THEN 0 ELSE @]]

\* part_005:333-461: the body of the loop for slot i of mesh k
ReplaceSlot(g, k, i, up, ctx) ==
  LET m == SlotMaterial(g, k, i) IN
  IF m = 0 \/ ~g.materials[m].name003 THEN g
  ELSE LET g1 == CloneForLogo(g, k, i)
           mat == SlotMaterial(g1, k, i)
           g2 == SnapshotAndClearEmissive(g1, mat)
           g3 == [g2 EXCEPT !.maps = MapSetIfAbsent(@, mat, g2.materials[mat].map)]
       IN  ApplyBaseMap(g3, k, i, up, ctx)

\* the slots <<mesh, materialIndex>> of the model in traversal order
SlotSeq(ms) ==
  LET RECURSIVE Build(_, _)
      Build(k, i) ==
        IF k > Len(ms) THEN <<>>
        ELSE IF i >= Len(ms[k].material) THEN Build(k + 1, 0)
        ELSE << <<k, i>> >> \o Build(k, i + 1)
  IN  Build(1, 0)
Slots(ms) == { SlotSeq(ms)[n] : n \in 1..Len(SlotSeq(ms)) }

\* part_005:330-462: modelRoot.traverse(...) once the image is decoded;
\* ctx[n] belongs to the n-th slot
RECURSIVE ReplaceFrom(_, _, _, _, _)
ReplaceFrom(g, slots, n, up, ctx) ==
  IF n > Len(slots) \/ g.aborted THEN g
  ELSE ReplaceFrom(ReplaceSlot(g, slots[n][1], slots[n][2], up,
                               [main |-> ctx.slot[n].main, fb |-> ctx.slot[n].fb,
                                helper |-> ctx.helper]),
                   slots, n + 1, up, ctx)

ReplaceTraverse(g, up, ctx) == ReplaceFrom(g, SlotSeq(g.meshes), 1, up, ctx)

\* faulty variant: m.map = material003OriginalMaps.get(m) without the undefined test
RestoreSlotUnchecked(g, k, i) ==
  LET m == SlotMaterial(g, k, i) IN
  IF m = 0 \/ ~g.materials[m].name003 THEN g
  ELSE [g EXCEPT !.materials[m].map = IF MapHas(g.maps, m) THEN MapGet(g.maps, m) ELSE 0]

\* part_005:471-488: the first traversal of restoreMaterial003BaseMap, one slot
RestoreSlot(g, k, i) ==
  LET m == SlotMaterial(g, k, i) IN
  IF m = 0 \/ ~g.materials[m].name003 THEN g
  ELSE
    LET g1 == IF MapHas(g.maps, m) THEN [g EXCEPT !.materials[m].map = MapGet(g.maps, m)]
              ELSE g
        map == g1.materials[m].map
        g2 == IF map # 0 /\ MapHas(g1.imgs, map)
                THEN [g1 EXCEPT !.textures[map].image = MapGet(g1.imgs, map)]
                ELSE g1
        mm == g2.materials[m]
        s == mm.userData.origEmissiveSnap
    IN  IF ~s.set THEN g2
        ELSE [g2 EXCEPT !.materials[m] =
                [mm EXCEPT
                   !.emissiveMap = IF mm.hasEmissive THEN s.emissiveMap ELSE @,
                   !.emissive = IF mm.hasEmissive /\ s.emissiveHex >= 0
                                  THEN s.emissiveHex ELSE @,
                   !.emissiveIntensity = IF mm.hasEmissive /\ s.emissiveIntensity >= 0
                                           THEN s.emissiveIntensity ELSE @,
                   !.userData.origEmissiveSnap = NoSnap]]

RECURSIVE RestoreFrom(_, _, _)
RestoreFrom(g, slots, n) ==
  IF n > Len(slots) THEN g
  ELSE RestoreFrom(RestoreSlot(g, slots[n][1], slots[n][2]), slots, n + 1)

\* part_005:491-495: the second traversal clears the marker of every slot material
ClearLogoMarkers(g) ==
  [g EXCEPT !.materials =
     [m \in DOMAIN g.materials |->
        IF \E s \in Slots(g.meshes) : SlotMaterial(g, s[1], s[2]) = m
          THEN [g.materials[m] EXCEPT !.userData.clonedForLogo = FALSE]
          ELSE g.materials[m]]]

\* part_005:465-497
RestoreTraverse(g) ==
  [ClearLogoMarkers(RestoreFrom(g, SlotSeq(g.meshes), 1)) EXCEPT !.maps = {}, !.imgs = {}]

-----------------------------------------------------------------------------
(* Model load: materials.js, materials_baked.js and part_001:384-407        *)

\* materials_baked.js:3-13 with remove = true: every slot material loses its base map
removeDefaultTextureMapsFromModel(g) ==
  [g EXCEPT !.materials =
     [m \in DOMAIN g.materials |->
        IF \E s \in Slots(g.meshes) : SlotMaterial(g, s[1], s[2]) = m
          THEN [g.materials[m] EXCEPT !.map = 0] ELSE g.materials[m]]]

\* materials.js:3-15
applyColorToModel(g, hex) ==
  [g EXCEPT !.materials =
     [m \in DOMAIN g.materials |->
        IF \E s \in Slots(g.meshes) : SlotMaterial(g, s[1], s[2]) = m
          THEN [g.materials[m] EXCEPT !.color = hex] ELSE g.materials[m]]]

\* faulty variant: the instance found in the slot is marked and registered, no clone is made
RegisterWithoutClone(g, k, i) ==
  LET m == SlotMaterial(g, k, i) IN
  IF m = 0 THEN g
  ELSE [g EXCEPT !.materials[m].userData.clonedForPerMaterial = TRUE,
                 !.registry = Append(@, [mesh |-> k, materialIndex |-> i, material |-> m])]

\* materials.js:78-95 for one slot: clone unless marked, then register the slot's material
RegisterSlot(g, k, i) ==
  LET m == SlotMaterial(g, k, i) IN
  IF m = 0 THEN g
  ELSE LET g1 == IF g.materials[m].userData.clonedForPerMaterial THEN g
                 ELSE [g EXCEPT
                         !.materials = Append(@, [g.materials[m] EXCEPT
                                                    !.userData.clonedForPerMaterial = TRUE]),
                         !.meshes[k].material[i + 1] = Len(g.materials) + 1]
       IN  [g1 EXCEPT !.registry = Append(@, [mesh |-> k, materialIndex |-> i,
                                              material |-> SlotMaterial(g1, k, i)])]

RECURSIVE RegisterFrom(_, _, _)
RegisterFrom(g, slots, n) ==
  IF n > Len(slots) THEN g
  ELSE RegisterFrom(RegisterSlot(g, slots[n][1], slots[n][2]), slots, n + 1)

\* materials.js:71-98
buildMaterialRegistry(g) == RegisterFrom([g EXCEPT !.registry = <<>>], SlotSeq(g.meshes), 1)

\* part_001:390-406: a kosha4 model keeps its maps and gets the registry, any other
\* model loses its base maps; both are painted white
PrepareModel(g, kosha4) ==
  IF kosha4 THEN buildMaterialRegistry(applyColorToModel(g, White))
  ELSE applyColorToModel(removeDefaultTextureMapsFromModel(g), White)

-----------------------------------------------------------------------------
(* State machine *)

UploadIds == 1..MaxUploads

NotCaptured == [phase |-> "none", slots |-> <<>>]

\* part_001:240-242: initialize shows the overlay and starts the first model
\* load, whose onDone hides the overlay; part_001:68 and part_000:11-12 give
\* the scenario keys and roots their first values.
InitialModelUrl == "kosha4.glb"

ModelLoad(url, n) == [kind |-> "model", key |-> url, st |-> "pending", onDone |-> n]

IdleViewer ==
  /\ scene = {}
  /\ loads = <<ModelLoad(InitialModelUrl, 1)>>
  /\ viewer = [modelRoot |-> 0, scenarioRoot |-> 0, currentScenarioKey |-> "modern_garage",
               managerScenarioKey |-> "none", overlay |-> "shown"]
  /\ doneCalled = {}
  /\ asked = [switches |-> 0, scenarios |-> 0, model |-> 1]

\* part_002:8-47
IdleCinematic ==
  cinematic = [enabled |-> FALSE, takes |-> <<>>, takesActive |-> FALSE,
               currentTakeIndex |-> 0, phase |-> "dwell", phaseTime |-> 0,
               manualOverride |-> FALSE, op |-> "create"]

\* main.js:71-73
IdleRegion ==
  /\ regionMaterials = <<>>
  /\ regionNameToMeshes = <<>>
  /\ activeRegionKey = "none"
  /\ highlightBefore = <<>>

IdleApp == IdleViewer /\ IdleCinematic /\ IdleRegion

\* each slot's material, its base map and that map's image
Capture(g) ==
  LET ss == SlotSeq(g.meshes) IN
  [n \in 1..Len(ss) |->
     LET m == SlotMaterial(g, ss[n][1], ss[n][2])
         map == IF m = 0 THEN 0 ELSE g.materials[m].map
     IN  [material |-> m, map |-> map,
          image |-> IF map = 0 THEN 0 ELSE g.textures[map].image]]

Init ==
  /\ modelRoot = 0
  /\ meshes = <<>>
  /\ materials = <<>>
  /\ textures = <<>>
  /\ images = <<>>
  /\ material003OriginalMaps = {}
  /\ material003OriginalImages = {}
  /\ materialRegistry = <<>>
  /\ uploads = [u \in UploadIds |-> [st |-> "idle", file |-> "none"]]
  /\ log = <<>>
  /\ lastOp = "init"
  /\ loaded = <<>>
  /\ before = NotCaptured
  /\ afterFirst = NotCaptured
  /\ cIn = <<>>
  /\ cOut = <<>>
  /\ IdleApp

\* part_001:384-407: the loader delivers model k
LoadGltfModel(k) ==
  /\ modelRoot = 0
  /\ meshes = <<>>
  /\ LET file == ModelFile(k)
         g == PrepareModel([Graph EXCEPT !.meshes = file.meshes,
                                         !.materials = file.materials,
                                         !.textures = FileTextures,
                                         !.images = FileImages], file.kosha4)
     IN  /\ modelRoot' = k
         /\ meshes' = g.meshes
         /\ materials' = g.materials
         /\ textures' = g.textures
         /\ images' = g.images
         /\ materialRegistry' = g.registry
         /\ loaded' = g.materials
  /\ lastOp' = "load"
  /\ UNCHANGED <<material003OriginalMaps, material003OriginalImages, uploads, log, before,
                 afterFirst>>
  /\ UNCHANGED <<composeVars, appVars>>

\* part_001:267-271, :502, part_005:326-328: the change handler up to the await.
\* Uploads are numbered in the order in which they are requested.
StartUpload(u, file) ==
  /\ uploads[u].st = "idle"
  /\ \A v \in UploadIds : v < u => uploads[v].st # "idle"
  /\ uploads' = [uploads EXCEPT ![u] = [st |-> IF modelRoot = 0 THEN "returned" ELSE "decoding",
                                        file |-> file]]
  /\ lastOp' = "start"
  /\ UNCHANGED <<modelRoot, meshes, materials, textures, images, material003OriginalMaps,
                 material003OriginalImages, materialRegistry, log, loaded, before, afterFirst>>
  /\ UNCHANGED <<composeVars, appVars>>

\* faulty variant: the promise resolves whatever the file holds
loadImageElementAlwaysResolves(file) == "resolved"

\* part_005:6-14: the promise resolves on load and rejects on error
loadImageElement(file) == IF file = "image" THEN "resolved" ELSE "rejected"

\* Which canvases of one traversal get a 2D context (getContext('2d') may return
\* null).  main is the canvas of the UV-aware path (part_005:192, :382), fb the
\* square-fit canvas (part_005:38).  main without fb is left out: it behaves like
\* both (UV-aware path) or like neither (square-fit path).  helper covers the
\* canvases whose failure is skipped silently (part_005:264, :399).
SlotCtx == { [main |-> TRUE, fb |-> TRUE], [main |-> FALSE, fb |-> TRUE],
             [main |-> FALSE, fb |-> FALSE] }

\* One traversal runs in one environment: the canvases of a kind get a context
\* for every slot or for none.
CtxChoices(g) ==
  { [slot |-> [n \in 1..Len(SlotSeq(g.meshes)) |-> c], helper |-> h] :
      c \in SlotCtx, h \in BOOLEAN }

\* part_005:328-463 after a successful decode: the whole traversal
DecodeResolved(u, ctx) ==
  /\ uploads[u].st = "decoding"
  /\ loadImageElement(uploads[u].file) = "resolved"
  /\ \E g \in {ReplaceTraverse(Graph, u, ctx)} :
       /\ meshes' = g.meshes
       /\ materials' = g.materials
       /\ textures' = g.textures
       /\ images' = g.images
       /\ material003OriginalMaps' = g.maps
       /\ material003OriginalImages' = g.imgs
       /\ log' = g.log
       /\ uploads' = [uploads EXCEPT ![u].st = IF g.aborted THEN "threw" ELSE "applied"]
       /\ lastOp' = IF g.aborted THEN "throw" ELSE "apply"
       /\ afterFirst' = IF afterFirst.phase = "none" /\ ~g.aborted
                          THEN [phase |-> "replaced", slots |-> Capture(g)]
                          ELSE afterFirst
  /\ before' = IF before.phase = "replaced" THEN before
               ELSE [phase |-> "replaced", slots |-> Capture(Graph)]
  /\ UNCHANGED <<modelRoot, materialRegistry, loaded>>
  /\ UNCHANGED <<composeVars, appVars>>

\* part_005:328: the await throws, nothing after it runs
DecodeRejected(u) ==
  /\ uploads[u].st = "decoding"
  /\ loadImageElement(uploads[u].file) = "rejected"
  /\ uploads' = [uploads EXCEPT ![u].st = "rejected"]
  /\ lastOp' = "reject"
  /\ UNCHANGED <<modelRoot, meshes, materials, textures, images, material003OriginalMaps,
                 material003OriginalImages, materialRegistry, log, loaded, before, afterFirst>>
  /\ UNCHANGED <<composeVars, appVars>>

\* part_001:277, :504, part_005:465-497: the reset button.  An upload whose
\* traversal ran before the reset is marked "reset".
RestoreLogo ==
  /\ modelRoot # 0
  /\ \E g \in {RestoreTraverse(Graph)} :
       /\ meshes' = g.meshes
       /\ materials' = g.materials
       /\ textures' = g.textures
       /\ images' = g.images
       /\ material003OriginalMaps' = g.maps
       /\ material003OriginalImages' = g.imgs
  /\ uploads' = [u \in UploadIds |->
                   IF uploads[u].st \in {"applied", "threw"}
                     THEN [uploads[u] EXCEPT !.st = "reset"] ELSE uploads[u]]
  /\ lastOp' = IF lastOp \in {"restore", "restore again"} THEN "restore again" ELSE "restore"
  /\ before' = IF before.phase = "replaced" THEN [before EXCEPT !.phase = "restored"]
               ELSE before
  /\ UNCHANGED <<modelRoot, materialRegistry, log, loaded, afterFirst>>
  /\ UNCHANGED <<composeVars, appVars>>

\* part_001:430-443, reached from switchModel (part_001:458): the model leaves the
\* scene, modelRoot becomes null and the registry is emptied.  The objects of the
\* model stay where they are: the two Maps and the calls that still await a decode
\* hold references to them.  The load that switchModel starts next builds another
\* graph and is not followed here.
DisposeModel ==
  /\ modelRoot # 0
  /\ modelRoot' = 0
  /\ materialRegistry' = <<>>
  /\ lastOp' = "dispose"
  /\ UNCHANGED <<meshes, materials, textures, images, material003OriginalMaps,
                 material003OriginalImages, uploads, log, loaded, before, afterFirst>>
  /\ UNCHANGED <<composeVars, appVars>>

Next ==
  \/ \E k \in ModelFiles : LoadGltfModel(k)
  \/ DisposeModel
  \/ \E u \in UploadIds, file \in {"image", "corrupt"} : StartUpload(u, file)
  \/ \E u \in UploadIds : \E ctx \in CtxChoices(Graph) : DecodeResolved(u, ctx)
  \/ \E u \in UploadIds : DecodeRejected(u)
  \/ RestoreLogo

Spec == Init /\ [][Next]_vars

-----------------------------------------------------------------------------
(* Claims about the logo feature, checked under Spec                        *)

SlotCount == Len(SlotSeq(meshes))
SlotMat(n) == meshes[SlotSeq(meshes)[n][1]].material[SlotSeq(meshes)[n][2] + 1]
\* the slots whose material's name matches Material 003
Targeted == { n \in 1..SlotCount : SlotMat(n) # 0 /\ materials[SlotMat(n)].name003 }
Marked(n) == materials[SlotMat(n)].userData.clonedForLogo
BaseMap(n) == materials[SlotMat(n)].map
BaseImage(n) == IF BaseMap(n) = 0 THEN 0 ELSE textures[BaseMap(n)].image
LogMethods == { log[j].method : j \in 1..Len(log) }

\* C1: after any number of replace traversals followed by a restore, every targeted
\* slot's material has the base map it had before the first replace, and that
\* texture has the image it had then; while replaced, the entries of the two
\* snapshot maps still hold the values from before the first replace.
C1_RoundTrip ==
  /\ before.phase = "restored" =>
       \A n \in Targeted : /\ BaseMap(n) = before.slots[n].map
                           /\ BaseImage(n) = before.slots[n].image
  /\ before.phase = "replaced" =>
       \A n \in Targeted :
         /\ MapHas(material003OriginalMaps, SlotMat(n)) =>
              MapGet(material003OriginalMaps, SlotMat(n)) = before.slots[n].map
         /\ MapHas(material003OriginalImages, before.slots[n].map) =>
              MapGet(material003OriginalImages, before.slots[n].map) = before.slots[n].image

\* two replaces, the second one compositing into the atlas, then a restore
C1_Witness ==
  /\ lastOp = "restore"
  /\ \A u \in {1, 2} : uploads[u].st = "reset"
  /\ {"uv-composite", "dedicated-texture"} \subseteq LogMethods
  /\ \E n \in Targeted : before.slots[n].map # 0

\* C2: the material instances that existed when the model was loaded are never
\* written by replace or restore; a targeted slot that was processed holds a clone
\* created afterwards, and every mesh keeps its single-material or array shape.
C2_OriginalsUntouched ==
  /\ SubSeq(materials, 1, Len(loaded)) = loaded
  /\ \A n \in Targeted : Marked(n) => SlotMat(n) > Len(loaded)
  /\ modelRoot # 0 =>
       \A k \in 1..Len(meshes) :
         /\ meshes[k].isArray = ModelFile(modelRoot).meshes[k].isArray
         /\ Len(meshes[k].material) = Len(ModelFile(modelRoot).meshes[k].material)

\* a replace has changed map, emissive fields and colour of a slot's material
C2_Witness ==
  /\ lastOp = "apply"
  /\ \E n \in Targeted :
       LET was == loaded[before.slots[n].material] IN
       /\ SlotMat(n) > Len(loaded)
       /\ BaseMap(n) # was.map
       /\ was.hasEmissive /\ was.emissive # Black /\ materials[SlotMat(n)].emissive = Black
       /\ was.emissiveMap # 0
       /\ meshes[SlotSeq(meshes)[n][1]].isArray


\* C4: a replace traversal writes into no image that existed before it; a texture
\* that existed before either keeps its image or gets a canvas created in this
\* traversal, fully drawn (the old picture with the logo or the flattened rectangle
\* on it, same size) before it is installed.
C4_FreshCanvasOnly ==
  [][lastOp' \in {"apply", "throw"} =>
       /\ \A j \in 1..Len(images) : images'[j] = images[j]
       /\ \A t \in 1..Len(textures) :
            \/ textures'[t].image = textures[t].image
            \/ /\ textures'[t].image > Len(images)
               /\ images'[textures'[t].image].kind \in {"composite", "flat"}
               /\ images'[textures'[t].image].w = images[textures[t].image].w
               /\ images'[textures'[t].image].h = images[textures[t].image].h]_vars

\* a traversal has composited into the atlas and the neutralizer has flattened a map
C4_Witness ==
  /\ lastOp = "apply"
  /\ \E t \in 1..Len(FileTextures) :
       textures[t].image # 0 /\ images[textures[t].image].kind = "composite"
  /\ \E t \in 1..Len(FileTextures) :
       textures[t].image # 0 /\ images[textures[t].image].kind = "flat"

\* the upload whose picture the base map of slot n shows (0 = none)
ShownLogo(n) == IF BaseImage(n) = 0 THEN 0 ELSE images[BaseImage(n)].logo
Applied == { u \in UploadIds : uploads[u].st = "applied" }

\* C5: once every upload that was started has finished, the base map of every
\* targeted slot shows the picture of the upload that was requested last among
\* those applied.
C5_LaterUploadWins ==
  (/\ Applied # {}
   /\ \A u \in UploadIds : uploads[u].st \notin {"decoding", "threw"})
  => \A n \in Targeted : ShownLogo(n) = SetMax(Applied)

\* C6 as stated: slots that held the same material instance before the clone step
\* hold the same clone after it, for the logo marker and for the registry.
C6_OneClonePerOriginal ==
  /\ before.phase = "replaced" =>
       \A n1, n2 \in Targeted :
         (/\ before.slots[n1].material = before.slots[n2].material
          /\ Marked(n1) /\ Marked(n2)) => SlotMat(n1) = SlotMat(n2)
  /\ modelRoot # 0 =>
       \A a, b \in 1..Len(materialRegistry) :
         LET ma == ModelFile(modelRoot).meshes[materialRegistry[a].mesh]
                     .material[materialRegistry[a].materialIndex + 1]
             mb == ModelFile(modelRoot).meshes[materialRegistry[b].mesh]
                     .material[materialRegistry[b].materialIndex + 1]
         IN  ma = mb => materialRegistry[a].material = materialRegistry[b].material

\* C6 amended: the clone step makes one clone per mesh slot; two different slots
\* never hold the same logo clone, and the registry entries of two different slots
\* never name the same instance.
C6_ClonePerSlot ==
  /\ \A n1, n2 \in Targeted :
       (n1 # n2 /\ Marked(n1) /\ Marked(n2)) => SlotMat(n1) # SlotMat(n2)
  /\ \A a, b \in 1..Len(materialRegistry) :
       a # b => materialRegistry[a].material # materialRegistry[b].material

\* two slots that shared one instance when the logo's clone step reached them
\* hold two different logo clones
C6_Witness ==
  /\ lastOp = "apply"
  /\ \E n1, n2 \in Targeted :
       /\ n1 # n2
       /\ before.slots[n1].material = before.slots[n2].material
       /\ Marked(n1) /\ Marked(n2) /\ SlotMat(n1) # SlotMat(n2)

\* C7 as stated: after every completed replace each targeted slot holds the
\* instance it held after the first completed replace on this model.
C7_SameCloneForLifetime ==
  (afterFirst.phase = "replaced" /\ lastOp = "apply") =>
     \A n \in Targeted : SlotMat(n) = afterFirst.slots[n].material

\* C7 amended: a replace leaves a slot whose material carries the logo marker with
\* that instance; restore clears the marker, and a completed replace puts a new,
\* marked clone into every targeted slot whose material does not carry it.
C7_CloneReusedUntilRestore ==
  [][lastOp' \in {"apply", "throw"} =>
       \A n \in Targeted :
         /\ Marked(n) => SlotMat(n)' = SlotMat(n)
         /\ (~Marked(n) /\ lastOp' = "apply") =>
               (SlotMat(n)' > Len(materials) /\ Marked(n)')]_vars

\* replace, restore, replace: a slot holds another instance than after the first replace
C7_Witness ==
  /\ lastOp = "apply"
  /\ afterFirst.phase = "replaced"
  /\ \E u \in UploadIds : uploads[u].st = "reset"
  /\ \E n \in Targeted : Marked(n) /\ SlotMat(n) # afterFirst.slots[n].material

\* C8: when the decode of an upload fails, the call ends as rejected and meshes,
\* materials, textures, images and the two snapshot maps are what they were.
C8_DecodeFailureTouchesNothing ==
  [][(\E u \in UploadIds : /\ uploads[u].st = "decoding" /\ uploads[u].file = "corrupt"
                           /\ uploads'[u].st # "decoding")
     => /\ \E u \in UploadIds : uploads[u].st = "decoding" /\ uploads'[u].st = "rejected"
        /\ UNCHANGED <<meshes, materials, textures, images, material003OriginalMaps,
                       material003OriginalImages>>]_vars

\* a decode has failed on a loaded model that has targeted slots
C8_Witness ==
  /\ lastOp = "reject"
  /\ Targeted # {}
  /\ \E u \in UploadIds : uploads[u].st = "rejected" /\ uploads[u].file = "corrupt"

\* C9: after a traversal, every slot whose UV-aware path threw has the 1200 x 1200
\* square-fit canvas as base map, the traversal went on to the end, and the base
\* map the slot had before still has its image unless another slot composited into it.
C9_FallbackAlwaysInstalled ==
  lastOp \in {"apply", "throw"} =>
    \A j \in 1..Len(log) :
      log[j].method \in {"fallback canvas", "uncaught"} =>
        LET m == meshes[log[j].mesh].material[log[j].slot + 1] IN
        /\ lastOp = "apply"
        /\ materials[m].map # 0
        /\ textures[materials[m].map].image # 0
        /\ images[textures[materials[m].map].image].kind = "square"
        /\ images[textures[materials[m].map].image].w = SquareFitSize
        /\ images[textures[materials[m].map].image].h = SquareFitSize
        /\ \/ textures[log[j].original].image = log[j].image
           \/ \E i \in 1..Len(log) : log[i].method = "uv-composite"
                                     /\ log[i].original = log[j].original

\* C10: a restore on a model with no replace since it was loaded or since the
\* last restore changes no material's map, no emissive field, no texture, no image.
C10_RestoreIdempotent ==
  [][(lastOp' \in {"restore", "restore again"} /\ before.phase # "replaced") =>
       /\ DOMAIN materials' = DOMAIN materials
       /\ \A m \in DOMAIN materials :
            /\ materials'[m].map = materials[m].map
            /\ materials'[m].emissive = materials[m].emissive
            /\ materials'[m].emissiveIntensity = materials[m].emissiveIntensity
            /\ materials'[m].emissiveMap = materials[m].emissiveMap
       /\ textures' = textures
       /\ images' = images
       /\ meshes' = meshes]_vars

\* a second restore right after the restore that undid a replace
C10_Witness ==
  /\ lastOp = "restore again"
  /\ \E u \in UploadIds : uploads[u].st = "reset"
  /\ \E n \in Targeted : BaseMap(n) # 0

\* the model was disposed; its objects are still referenced
Disposed == modelRoot = 0 /\ meshes # <<>>

\* C11: once the model is disposed, material003OriginalMaps and
\* material003OriginalImages hold no entry made for it, whether the replace ran
\* before the disposal or its decode completed after it.
C11_SnapshotsDiscardedOnDispose ==
  Disposed => (material003OriginalMaps = {} /\ material003OriginalImages = {})

\* the normal, roughness, metalness and AO textures of the targeted materials
ChannelTextures ==
  UNION { { t \in {materials[SlotMat(n)].normalMap, materials[SlotMat(n)].roughnessMap,
                   materials[SlotMat(n)].metalnessMap, materials[SlotMat(n)].aoMap} : t # 0 } :
          n \in Targeted }

\* C23: right after a restore every normal, roughness, metalness and AO texture
\* of every targeted material has the image the model file gave it.
C23_RestoreUndoesNeutralizer ==
  (modelRoot # 0 /\ lastOp \in {"restore", "restore again"}) =>
    \A t \in ChannelTextures : textures[t].image = FileTextures[t].image

-----------------------------------------------------------------------------
(* The logo feature beside the features that also replace a slot's material *)
(* with a clone: the map checkboxes (materials_baked.js:51-74, the same as   *)
(* main.js:735-761), the region colour (main.js:1814-1846) and the target    *)
(* colour (materials.js:44-69).                                              *)

\* m.clone() with userData spread and the marker set, installed in the slot
\* unless the slot's material carries the marker already
CloneFor(g, k, i, marker) ==
  LET m == SlotMaterial(g, k, i) IN
  IF m = 0 \/ g.materials[m].userData[marker] THEN g
  ELSE [g EXCEPT
          !.materials = Append(@, [g.materials[m] EXCEPT !.userData[marker] = TRUE]),
          !.meshes[k].material[i + 1] = Len(g.materials) + 1]

\* the checkbox of a map that is not the base map
ToggleKeys == {"normalMap"}

\* materials_baked.js:56-72 for one slot with enabled = false
ToggleSlot(g, k, i, key) ==
  LET g1 == CloneFor(g, k, i, "clonedForToggle")
      mm == SlotMaterial(g1, k, i)
  IN  IF mm = 0 THEN g1 ELSE [g1 EXCEPT !.materials[mm][key] = 0]

RECURSIVE ToggleFrom(_, _, _, _)
ToggleFrom(g, slots, n, key) ==
  IF n > Len(slots) THEN g
  ELSE ToggleFrom(ToggleSlot(g, slots[n][1], slots[n][2], key), slots, n + 1, key)

\* materials_baked.js:51-74
toggleTextureMapEnabled(g, key) == ToggleFrom(g, SlotSeq(g.meshes), 1, key)

\* main.js:1821-1838 for one slot of a mesh of the active region
RegionSlot(g, k, i, region, hex) ==
  IF k \notin region THEN g
  ELSE LET g1 == CloneFor(g, k, i, "clonedForRegion")
           mm == SlotMaterial(g1, k, i)
       IN  IF mm = 0 THEN g1 ELSE [g1 EXCEPT !.materials[mm].color = hex]

RECURSIVE RegionFrom(_, _, _, _, _)
RegionFrom(g, slots, n, region, hex) ==
  IF n > Len(slots) THEN g
  ELSE RegionFrom(RegionSlot(g, slots[n][1], slots[n][2], region, hex), slots, n + 1, region, hex)

\* main.js:1814-1842 with discovered regions; region holds the meshes of the active one
applyColorToRegion(g, region, hex) == RegionFrom(g, SlotSeq(g.meshes), 1, region, hex)

\* the mesh whose name includes 'cube001'; its slots whose material is not
\* Material 003 stand for Material.002
Cube001 == 2

\* materials.js:52-66 for one slot, then materials.js:28-35: the clone loses its
\* base map and takes the colour
TargetSlot(g, k, i, hex) ==
  LET m == SlotMaterial(g, k, i) IN
  IF k # Cube001 \/ m = 0 \/ g.materials[m].name003 THEN g
  ELSE LET g1 == CloneFor(g, k, i, "clonedForTargetColor")
           mat == SlotMaterial(g1, k, i)
       IN  [g1 EXCEPT !.materials[mat].map = 0, !.materials[mat].color = hex]

RECURSIVE TargetFrom(_, _, _, _)
TargetFrom(g, slots, n, hex) ==
  IF n > Len(slots) THEN g
  ELSE TargetFrom(TargetSlot(g, slots[n][1], slots[n][2], hex), slots, n + 1, hex)

\* materials.js:44-69 followed by materials.js:21-38
disableMapForSpecificTarget(g, hex) == TargetFrom(g, SlotSeq(g.meshes), 1, hex)

RegionColour == 255

\* a checkbox of the texture toggles is cleared
ToggleTextureMap(key) ==
  /\ modelRoot # 0
  /\ \E g \in {toggleTextureMapEnabled(Graph, key)} :
       /\ meshes' = g.meshes
       /\ materials' = g.materials
  /\ lastOp' = "toggle"
  /\ UNCHANGED <<modelRoot, textures, images, material003OriginalMaps,
                 material003OriginalImages, materialRegistry, uploads, log, loaded, before,
                 afterFirst>>
  /\ UNCHANGED <<composeVars, appVars>>

\* the colour input, with the region of mesh k active
ApplyColorToRegion(k) ==
  /\ modelRoot # 0
  /\ k \in 1..Len(meshes)
  /\ \E g \in {applyColorToRegion(Graph, {k}, RegionColour)} :
       /\ meshes' = g.meshes
       /\ materials' = g.materials
  /\ lastOp' = "region"
  /\ UNCHANGED <<modelRoot, textures, images, material003OriginalMaps,
                 material003OriginalImages, materialRegistry, uploads, log, loaded, before,
                 afterFirst>>
  /\ UNCHANGED <<composeVars, appVars>>

\* part_001:259-264: the model colour input
DisableMapForSpecificTarget ==
  /\ modelRoot # 0
  /\ \E g \in {disableMapForSpecificTarget(Graph, RegionColour)} :
       /\ meshes' = g.meshes
       /\ materials' = g.materials
  /\ lastOp' = "target"
  /\ UNCHANGED <<modelRoot, textures, images, material003OriginalMaps,
                 material003OriginalImages, materialRegistry, uploads, log, loaded, before,
                 afterFirst>>
  /\ UNCHANGED <<composeVars, appVars>>

\* one logo upload, the reset button and the three features above
NextFeatures ==
  \/ \E k \in ModelFiles : LoadGltfModel(k)
  \/ StartUpload(1, "image")
  \/ \E ctx \in CtxChoices(Graph) : DecodeResolved(1, ctx)
  \/ RestoreLogo
  \/ \E key \in ToggleKeys : ToggleTextureMap(key)
  \/ ApplyColorToRegion(1)
  \/ DisableMapForSpecificTarget

SpecFeatures == Init /\ [][NextFeatures]_vars

\* C24: after a restore every targeted slot's material has the base map, with
\* the image, it had before the logo was applied, also when a map checkbox or
\* the region colour has put a clone into the slot since the replace.
C24_RestoreThroughForeignClone ==
  (lastOp = "restore" /\ before.phase = "restored") =>
    \A n \in Targeted : /\ BaseMap(n) = before.slots[n].map
                        /\ BaseImage(n) = before.slots[n].image

\* C25: every entry of materialRegistry names the material installed at its slot.
C25_RegistryIsCurrent ==
  \A j \in 1..Len(materialRegistry) :
    materialRegistry[j].material
      = meshes[materialRegistry[j].mesh].material[materialRegistry[j].materialIndex + 1]

-----------------------------------------------------------------------------
(* Decal compositor, pixel level: composeLogoIntoOriginalTexture of          *)
(* part_005:170-239 and the image functions it calls.  A pixel is            *)
(* <<r, g, b, a>>; a canvas or ImageData is [width, height, data] with data  *)
(* indexed by y * width + x.  The uploaded logo is opaque and of one colour, *)
(* scaling it yields that colour on every pixel of the destination.          *)

Transparent == <<0, 0, 0, 0>>
LogoInk == <<255, 0, 0, 255>>

\* a canvas of the given size whose pixel i is data[i]
Canvas(width, height, data) == [width |-> width, height |-> height, data |-> data]

PixelAt(img, x, y) ==
  IF x < 0 \/ y < 0 \/ x >= img.width \/ y >= img.height THEN Transparent
  ELSE img.data[y * img.width + x]

InRect(r, x, y) == x >= r.x /\ x < r.x + r.w /\ y >= r.y /\ y < r.y + r.h

\* ctx.getImageData(x, y, w, h)
getImageData(canvas, x, y, w, h) ==
  Canvas(w, h, [i \in 0..(w * h - 1) |-> PixelAt(canvas, x + (i % w), y + (i \div w))])

\* faulty variant: ctx.putImageData(sub, 0, 0)
putImageDataAtOrigin(canvas, sub, x, y) ==
  Canvas(canvas.width, canvas.height,
         [i \in DOMAIN canvas.data |->
            IF (i % canvas.width) < sub.width /\ (i \div canvas.width) < sub.height
              THEN PixelAt(sub, i % canvas.width, i \div canvas.width)
              ELSE canvas.data[i]])

\* ctx.putImageData(sub, x, y)
putImageData(canvas, sub, x, y) ==
  Canvas(canvas.width, canvas.height,
         [i \in DOMAIN canvas.data |->
            IF InRect([x |-> x, y |-> y, w |-> sub.width, h |-> sub.height],
                      i % canvas.width, i \div canvas.width)
              THEN PixelAt(sub, (i % canvas.width) - x, (i \div canvas.width) - y)
              ELSE canvas.data[i]])

\* ctx.drawImage(logoImage, dx, dy, drawW, drawH), clipped to the canvas
drawLogo(canvas, dx, dy, drawW, drawH) ==
  Canvas(canvas.width, canvas.height,
         [i \in DOMAIN canvas.data |->
            IF InRect([x |-> dx, y |-> dy, w |-> drawW, h |-> drawH],
                      i % canvas.width, i \div canvas.width)
              THEN LogoInk ELSE canvas.data[i]])

\* faulty variant: the second loop reads column 1 instead of column 0
BorderCoordsShifted(width, height) ==
  [j \in 1..(2 * width) |-> IF j % 2 = 1 THEN <<(j - 1) \div 2, 0>>
                            ELSE <<(j - 1) \div 2, height - 1>>]
  \o [j \in 1..(2 * Max2(0, height - 2)) |->
        IF j % 2 = 1 THEN <<Min2(1, width - 1), (j + 1) \div 2>> ELSE <<width - 1, j \div 2>>]

\* part_005:118-126: the border pixels in the order of the two loops, and the
\* means as sums over the count n
BorderCoords(width, height) ==
  [j \in 1..(2 * width) |-> IF j % 2 = 1 THEN <<(j - 1) \div 2, 0>>
                            ELSE <<(j - 1) \div 2, height - 1>>]
  \o [j \in 1..(2 * Max2(0, height - 2)) |-> IF j % 2 = 1 THEN <<0, (j + 1) \div 2>>
                                             ELSE <<width - 1, j \div 2>>]

RECURSIVE SumChannel(_, _, _, _)
SumChannel(imageData, coords, j, c) ==
  IF j > Len(coords) THEN 0
  ELSE imageData.data[coords[j][2] * imageData.width + coords[j][1]][c]
       + SumChannel(imageData, coords, j + 1, c)

estimateBackgroundColorFromBorder(imageData) ==
  LET coords == BorderCoords(imageData.width, imageData.height) IN
  IF Len(coords) = 0 THEN [r |-> 0, g |-> 0, b |-> 0, n |-> 1]
  ELSE [r |-> SumChannel(imageData, coords, 1, 1), g |-> SumChannel(imageData, coords, 1, 2),
        b |-> SumChannel(imageData, coords, 1, 3), n |-> Len(coords)]

\* part_005:128-143: 1 where the squared RGB distance to bg exceeds threshold^2
buildForegroundMask(imageData, bg, threshold) ==
  [width |-> imageData.width, height |-> imageData.height,
   mask |-> [i \in 0..(imageData.width * imageData.height - 1) |->
               LET dr == imageData.data[i][1] * bg.n - bg.r
                   dg == imageData.data[i][2] * bg.n - bg.g
                   db == imageData.data[i][3] * bg.n - bg.b
               IN  IF dr * dr + dg * dg + db * db > threshold * threshold * bg.n * bg.n
                     THEN 1 ELSE 0]]

\* part_005:145-167: null (ok = FALSE) without a foreground pixel, else the
\* tight box moved left and up by the padding and widened by twice the padding
NoBox == [ok |-> FALSE, x |-> 0, y |-> 0, w |-> 0, h |-> 0]

ForegroundCoords(maskObj) ==
  { <<i % maskObj.width, i \div maskObj.width>> :
      i \in { j \in DOMAIN maskObj.mask : maskObj.mask[j] = 1 } }

largestMaskBoundingBox(maskObj) ==
  LET fg == ForegroundCoords(maskObj) IN
  IF fg = {} THEN NoBox
  ELSE LET minX == SetMin({ c[1] : c \in fg })
           maxX == SetMax({ c[1] : c \in fg })
           minY == SetMin({ c[2] : c \in fg })
           maxY == SetMax({ c[2] : c \in fg })
           padX == Round((maxX - minX + 1) * PadPercent, 100)
           padY == Round((maxY - minY + 1) * PadPercent, 100)
           x == Max2(0, minX - padX)
           y == Max2(0, minY - padY)
       IN  [ok |-> TRUE, x |-> x, y |-> y,
            w |-> Min2(maskObj.width - x, maxX - minX + 1 + 2 * padX),
            h |-> Min2(maskObj.height - y, maxY - minY + 1 + 2 * padY)]

\* faulty variant: rows counted from the top whatever flipY says
vToYUnflipped(v, den, height, flipY) == Round(v * height, den)

\* part_005:179-188: the pixel rectangle of the (clamped) UV bounds
clamp01(x, den) == Max2(0, Min2(den, x))

vToY(v, den, height, flipY) ==
  IF ~flipY THEN Round(v * height, den) ELSE Round((den - v) * height, den)

UvPixelRect(bounds, width, height, flipY) ==
  LET minU == clamp01(bounds.minU, bounds.den)
      minV == clamp01(bounds.minV, bounds.den)
      maxU == clamp01(bounds.maxU, bounds.den)
      maxV == clamp01(bounds.maxV, bounds.den)
      y1 == vToY(minV, bounds.den, height, flipY)
      y2 == vToY(maxV, bounds.den, height, flipY)
  IN  [x |-> Round(minU * width, bounds.den), y |-> Min2(y1, y2),
       w |-> Max2(1, Round((maxU - minU) * width, bounds.den)),
       h |-> Max2(1, Abs(y2 - y1))]

\* part_005:196-199
SafeRect(rect, width, height) ==
  LET safeRectW == Max2(MinRectPx, rect.w)
      safeRectH == Max2(MinRectPx, rect.h)
  IN  [x |-> Max2(0, Min2(width - safeRectW, rect.x)),
       y |-> Max2(0, Min2(height - safeRectH, rect.y)),
       w |-> safeRectW, h |-> safeRectH]

\* part_005:207-214: the rectangle the logo is drawn into
LogoDrawRect(safe, logoW, logoH) ==
  LET availW == Max2(1, Round(safe.w * CoverageNum, 2))
      availH == Max2(1, Round(safe.h * CoverageNum, 2))
      byWidth == availW * logoH <= availH * logoW
      drawW == Max2(1, IF byWidth THEN Round(logoW * availW, logoW)
                       ELSE Round(logoW * availH, logoH))
      drawH == Max2(1, IF byWidth THEN Round(logoH * availW, logoW)
                       ELSE Round(logoH * availH, logoH))
  IN  [x |-> safe.x + Round(safe.w - drawW, 2), y |-> safe.y + Round(safe.h - drawH, 2),
       w |-> drawW, h |-> drawH]

\* part_005:216-233: masked pixels of sub become the rounded background, opaque
EraseForeground(sub, mask, bg) ==
  [sub EXCEPT !.data =
     [i \in DOMAIN sub.data |->
        IF mask.mask[i] = 1
          THEN <<Round(bg.r, bg.n), Round(bg.g, bg.n), Round(bg.b, bg.n), 255>>
          ELSE sub.data[i]]]

\* part_005:170-239.  img is the atlas image (width, height > 0), bounds the result
\* of computeUvBoundsForMaterial (not null).  The result carries, beside the canvas,
\* the rectangles the function computed.  bbox and target (part_005:203-204) are
\* computed by the code and not used.
composeLogoIntoOriginalTexture(img, bounds, flipY, logoW, logoH) ==
  LET rect == UvPixelRect(bounds, img.width, img.height, flipY)
      safe == SafeRect(rect, img.width, img.height)
      draw == LogoDrawRect(safe, logoW, logoH)
      sub == getImageData(img, safe.x, safe.y, safe.w, safe.h)
      bg == estimateBackgroundColorFromBorder(sub)
      mask == buildForegroundMask(sub, bg, MaskThreshold)
      erased == putImageData(img, EraseForeground(sub, mask, bg), safe.x, safe.y)
  IN  [canvas |-> drawLogo(erased, draw.x, draw.y, draw.w, draw.h),
       rect |-> rect, safeRect |-> safe, drawRect |-> draw]

-----------------------------------------------------------------------------
(* The compositor on its own: Init draws an atlas image, a mesh's UVs, the  *)
(* texture's flipY and a logo size; ComposeLogo runs the function once.     *)

\* a quad whose UVs span [u0, u1] x [v0, v1] (units of 1/UVDen)
Quad(u0, v0, u1, v1) ==
  Geometry(TRUE, << <<u0, v0>>, <<u1, v0>>, <<u0, v1>>, <<u1, v1>> >>, FALSE, <<>>, <<>>)

ComposeGeometries ==
  { Quad(8, 8, 40, 40), Quad(0, 0, 64, 64), Quad(16, 24, 56, 56), Quad(24, 24, 32, 32),
    Quad(-16, 0, 32, 80), Quad(40, 8, 64, 48) }

\* 1: an even light grey.  2: a faintly uneven grey with a dark block (an old logo).
AtlasPixel(pattern, x, y) ==
  IF pattern = 1 THEN <<200, 200, 200, 255>>
  ELSE IF x \in 4..8 /\ y \in 5..9 THEN <<20, 40, 60, 255>>
  ELSE <<180 + (x % 3), 180, 180 - (y % 2), 255>>

AtlasImage(width, height, pattern) ==
  Canvas(width, height,
         [i \in 0..(width * height - 1) |-> AtlasPixel(pattern, i % width, i \div width)])

AtlasSizes == { <<16, 16>>, <<20, 12>> }

ComposeInputs ==
  { [geom |-> g, flipY |-> f, size |-> sz, pattern |-> p, logoW |-> lw, logoH |-> lh] :
      g \in ComposeGeometries, f \in BOOLEAN, sz \in AtlasSizes, p \in {1, 2},
      lw \in 1..MaxLogoSide, lh \in 1..MaxLogoSide }

InitCompose ==
  /\ modelRoot = 0
  /\ meshes = <<>>
  /\ materials = <<>>
  /\ textures = <<>>
  /\ images = <<>>
  /\ material003OriginalMaps = {}
  /\ material003OriginalImages = {}
  /\ materialRegistry = <<>>
  /\ uploads = [u \in UploadIds |-> [st |-> "idle", file |-> "none"]]
  /\ log = <<>>
  /\ lastOp = "init"
  /\ loaded = <<>>
  /\ before = NotCaptured
  /\ afterFirst = NotCaptured
  /\ cIn \in ComposeInputs
  /\ cOut = <<>>
  /\ IdleApp

ComposeLogo ==
  /\ cOut = <<>>
  /\ \E out \in { composeLogoIntoOriginalTexture(
                    AtlasImage(cIn.size[1], cIn.size[2], cIn.pattern),
                    computeUvBoundsForMaterial(cIn.geom, 0,
                                               Texture(1, cIn.flipY, UVDen, UVDen, 0, 0)),
                    cIn.flipY, cIn.logoW, cIn.logoH) } :
       cOut' = out
  /\ UNCHANGED <<cIn, logoVars, appVars>>

NextCompose == ComposeLogo

SpecCompose == InitCompose /\ [][NextCompose]_vars

\* the atlas the composed canvas of this state was copied from
AtlasIn == AtlasImage(cIn.size[1], cIn.size[2], cIn.pattern)
CanvasCoords == (0..(cIn.size[1] - 1)) \X (0..(cIn.size[2] - 1))
Changed(c) == PixelAt(cOut.canvas, c[1], c[2]) # PixelAt(AtlasIn, c[1], c[2])

-----------------------------------------------------------------------------
(* The functions of part_005 on their own: Init draws the arguments of one  *)
(* call (cIn.op names the function), the action of that function runs it    *)
(* once and leaves the result in cOut.                                      *)

\* no model loaded, nothing uploaded
IdleLogo ==
  /\ modelRoot = 0
  /\ meshes = <<>>
  /\ materials = <<>>
  /\ textures = <<>>
  /\ images = <<>>
  /\ material003OriginalMaps = {}
  /\ material003OriginalImages = {}
  /\ materialRegistry = <<>>
  /\ uploads = [u \in UploadIds |-> [st |-> "idle", file |-> "none"]]
  /\ log = <<>>
  /\ lastOp = "init"
  /\ loaded = <<>>
  /\ before = NotCaptured
  /\ afterFirst = NotCaptured

\* Strategy selection, part_005:361-375.  The island is a quad from u0 to
\* u0 + du and v0 to v0 + dv (1/UVDen), the base map has repeat rep in both
\* directions and an image of the given size (<<0, 0>>: no size yet).
\* On 1024 px one unit of 1/UVDen is 16 px.
SelectSpans == {0, 1, 2, 3, 4, 5, 6, 13}
SelectInputs ==
  { [op |-> "select", geom |-> Quad(8, 8, 8 + du, 8 + dv),
     texture |-> Texture(1, TRUE, rep, rep, 0, 0), size |-> sz] :
      du \in SelectSpans, dv \in SelectSpans, rep \in {UVDen, UVDen \div 2},
      sz \in { <<1024, 1024>>, <<1024, 512>>, <<0, 0>> } }

SelectStrategy ==
  /\ cIn.op = "select"
  /\ cOut = <<>>
  /\ LET rawUv == computeRawUvBoundsForMaterial(cIn.geom, 0)
         boundsTransformed == computeUvBoundsForMaterial(cIn.geom, 0, cIn.texture)
         texW == IF cIn.size[1] = 0 THEN DefaultTexSize ELSE cIn.size[1]
         texH == IF cIn.size[2] = 0 THEN DefaultTexSize ELSE cIn.size[2]
     IN  cOut' = [tinyIsland |-> TinyIsland(rawUv, boundsTransformed, texW, texH),
                  texW |-> texW, texH |-> texH]
  /\ UNCHANGED <<cIn, logoVars, appVars>>

\* the island of cIn in pixels of the atlas, before and after the texture transform
SpanU == cIn.geom.uv[4][1] - cIn.geom.uv[1][1]
SpanV == cIn.geom.uv[4][2] - cIn.geom.uv[1][2]
RawPxW == Round(SpanU * cOut.texW, UVDen)
RawPxH == Round(SpanV * cOut.texH, UVDen)
TransformedPxW == Round(SpanU * cIn.texture.repU * cOut.texW, UVDen * UVDen)
TransformedPxH == Round(SpanV * cIn.texture.repV * cOut.texH, UVDen * UVDen)
Selected == cIn.op = "select" /\ cOut # <<>>

Overfill == <<9, 5>>

DedicatedDrawRect(logoW, logoH, side) ==
  LET dw == Round(logoW * side * Overfill[1], Min2(logoW, logoH) * Overfill[2])
      dh == Round(logoH * side * Overfill[1], Min2(logoW, logoH) * Overfill[2])
  IN  [x |-> Round(side - dw, 2), y |-> Round(side - dh, 2), w |-> dw, h |-> dh]

\* One slot with a small island: a 1024 x 1024 atlas behind a base map with a
\* transform, and an upload of the given size.
UploadSizes == { <<2000, 2000>>, <<300, 100>>, <<1, 7>>, <<512, 512>> }
DedicatedInputs ==
  { [op |-> "dedicated", geom |-> Quad(u0, 8, u0 + du, 8 + dv),
     texture |-> Texture(1, f, rep, rep, 16 - (rep \div 4), 0), logo |-> sz] :
      u0 \in {8, 40}, du \in 1..3, dv \in 1..3, rep \in {UVDen, UVDen \div 2},
      f \in BOOLEAN, sz \in UploadSizes }

\* the graph of that one slot
OneSlotGraph(geom, texture) ==
  [meshes |-> << Mesh(FALSE, <<1>>, geom) >>,
   materials |-> << StandardMaterial(TRUE, 1, 0, 0, 0, 0, Black, 1, 0, White) >>,
   textures |-> << texture >>,
   images |-> << Image("file", 1024, 1024, 0, 0) >>,
   maps |-> {}, imgs |-> {}, registry |-> <<>>, log |-> <<>>, aborted |-> FALSE]

\* part_005:359-460 for that slot, every canvas getting its context
ApplyToTinyIsland ==
  /\ cIn.op = "dedicated"
  /\ cOut = <<>>
  /\ \E g \in { ApplyBaseMap(OneSlotGraph(cIn.geom, cIn.texture), 1, 0, 1,
                             [main |-> TRUE, fb |-> TRUE, helper |-> TRUE]) } :
       cOut' = [g |-> g, draw |-> DedicatedDrawRect(cIn.logo[1], cIn.logo[2], DedicatedSide)]
  /\ UNCHANGED <<cIn, logoVars, appVars>>

RectIntervals == { <<-16, 32>>, <<0, 64>>, <<8, 40>>, <<24, 24>>, <<60, 80>>, <<70, 90>> }
RectSizes == { <<1, 1>>, <<4, 4>>, <<8, 8>>, <<16, 16>>, <<20, 12>>, <<1000, 1000>> }
RectInputs ==
  { [op |-> "rect", flipY |-> f, size |-> sz,
     bounds |-> [ok |-> TRUE, minU |-> iu[1], maxU |-> iu[2],
                 minV |-> iv[1], maxV |-> iv[2], den |-> UVDen]] :
      iu \in RectIntervals, iv \in RectIntervals, sz \in RectSizes, f \in BOOLEAN }
  \cup
  { [op |-> "rect", flipY |-> f, size |-> <<1000, 1000>>,
     bounds |-> [ok |-> TRUE, minU |-> 2, maxU |-> 4, minV |-> 1, maxV |-> 3, den |-> 10]] :
      f \in BOOLEAN }

\* part_005:178-199 of composeLogoIntoOriginalTexture
PixelRectOf ==
  /\ cIn.op = "rect"
  /\ cOut = <<>>
  /\ \E rect \in { UvPixelRect(cIn.bounds, cIn.size[1], cIn.size[2], cIn.flipY) } :
       cOut' = [rect |-> rect, safeRect |-> SafeRect(rect, cIn.size[1], cIn.size[2])]
  /\ UNCHANGED <<cIn, logoVars, appVars>>

RectDone == cIn.op = "rect" /\ cOut # <<>>
\* a bound moved into [0, 1]
Clamped(x) == IF x < 0 THEN 0 ELSE IF x > cIn.bounds.den THEN cIn.bounds.den ELSE x

C15_RectInsideImage ==
  RectDone =>
    /\ cOut.safeRect.x >= 0 /\ cOut.safeRect.y >= 0
    /\ cOut.safeRect.w >= 1 /\ cOut.safeRect.h >= 1
    /\ cOut.safeRect.x + cOut.safeRect.w <= cIn.size[1]
    /\ cOut.safeRect.y + cOut.safeRect.h <= cIn.size[2]

\* Background estimate, part_005:118-126: rectangles whose outermost rows and
\* columns have one colour and whose interior has another (or the same).
BorderColours == { <<200, 100, 50, 255>>, <<0, 0, 0, 255>>, <<255, 255, 255, 255>> }
InteriorColours == { <<10, 20, 30, 255>>, <<200, 100, 50, 255>>, <<255, 0, 255, 0>> }

OnBorder(x, y, width, height) == x = 0 \/ y = 0 \/ x = width - 1 \/ y = height - 1

Framed(width, height, border, interior) ==
  Canvas(width, height,
         [i \in 0..(width * height - 1) |->
            IF OnBorder(i % width, i \div width, width, height) THEN border ELSE interior])

BackgroundInputs ==
  { [op |-> "background", image |-> Framed(w, h, b, c), border |-> b] :
      w \in 1..MaxRectSide, h \in 1..MaxRectSide, b \in BorderColours, c \in InteriorColours }

EstimateBackground ==
  /\ cIn.op = "background"
  /\ cOut = <<>>
  /\ cOut' = [bg |-> estimateBackgroundColorFromBorder(cIn.image)]
  /\ UNCHANGED <<cIn, logoVars, appVars>>

\* C16: when every pixel of the outermost rows and columns has the colour
\* (r, g, b), the estimate is exactly r, g and b (a sum over n samples equal to
\* n times the channel), whatever the size from 1 x 1 and whatever the interior.
C16_UniformBorderExact ==
  (cIn.op = "background" /\ cOut # <<>>) =>
    /\ cOut.bg.n > 0
    /\ cOut.bg.r = cIn.border[1] * cOut.bg.n
    /\ cOut.bg.g = cIn.border[2] * cOut.bg.n
    /\ cOut.bg.b = cIn.border[3] * cOut.bg.n

\* a border of RGB(200, 100, 50) around an interior of another colour
C16_Witness ==
  /\ cIn.op = "background" /\ cOut # <<>>
  /\ cIn.border = <<200, 100, 50, 255>>
  /\ cIn.image.width >= 3 /\ cIn.image.height >= 3
  /\ PixelAt(cIn.image, 1, 1) # cIn.border
  /\ cOut.bg.r = 200 * cOut.bg.n /\ cOut.bg.g = 100 * cOut.bg.n /\ cOut.bg.b = 50 * cOut.bg.n

\* PBR neutralizer, pixel level, part_005:247-318.  The maps are opaque, as the
\* channel maps of a glTF material are; drawImage onto the new canvas copies them.
FlatNormal == <<128, 128, 255, 255>>
SampleBorder == 2

clamp(v, lo, hi) == Max2(lo, Min2(hi, v))

\* part_005:253-271: eVToY is vToY without the clamp of v; the rectangle bx, by, bw, bh
NeutralRect(bounds, ew, eh, flipY) ==
  LET eY1 == vToY(bounds.minV, bounds.den, eh, flipY)
      eY2 == vToY(bounds.maxV, bounds.den, eh, flipY)
      eRectX == Round(clamp01(bounds.minU, bounds.den) * ew, bounds.den)
      eRectY == Min2(eY1, eY2)
      eRectW == Max2(1, Round((clamp01(bounds.maxU, bounds.den)
                               - clamp01(bounds.minU, bounds.den)) * ew, bounds.den))
      eRectH == Max2(1, Abs(eY2 - eY1))
      bx == clamp(eRectX, 0, ew - 1)
      by == clamp(eRectY, 0, eh - 1)
  IN  [x |-> bx, y |-> by, w |-> clamp(eRectW, 1, ew - bx), h |-> clamp(eRectH, 1, eh - by)]

\* part_005:286-291
sampleRects(r) ==
  << [x |-> r.x, y |-> r.y, w |-> r.w, h |-> Min2(SampleBorder, r.h)],
     [x |-> r.x, y |-> r.y + Max2(0, r.h - SampleBorder), w |-> r.w, h |-> Min2(SampleBorder, r.h)],
     [x |-> r.x, y |-> r.y, w |-> Min2(SampleBorder, r.w), h |-> r.h],
     [x |-> r.x + Max2(0, r.w - SampleBorder), y |-> r.y, w |-> Min2(SampleBorder, r.w), h |-> r.h] >>

\* part_005:297: the sum of channel c over data[i..]
RECURSIVE DataSum(_, _, _)
DataSum(id, i, c) ==
  IF i >= id.width * id.height THEN 0 ELSE id.data[i][c] + DataSum(id, i + 1, c)

\* part_005:292-301: the sums and the count over the four sample rectangles
RECURSIVE SampleSum(_, _, _, _)
SampleSum(canvas, rects, j, c) ==
  IF j > Len(rects) THEN 0
  ELSE (IF rects[j].w <= 0 \/ rects[j].h <= 0 THEN 0
        ELSE DataSum(getImageData(canvas, rects[j].x, rects[j].y, rects[j].w, rects[j].h), 0, c))
       + SampleSum(canvas, rects, j + 1, c)

RECURSIVE SampleCount(_, _)
SampleCount(rects, j) ==
  IF j > Len(rects) THEN 0
  ELSE (IF rects[j].w <= 0 \/ rects[j].h <= 0 THEN 0 ELSE rects[j].w * rects[j].h)
       + SampleCount(rects, j + 1)

SampleAvg(canvas, rects, c) ==
  IF SampleCount(rects, 1) = 0 THEN 0
  ELSE Round(SampleSum(canvas, rects, 1, c), SampleCount(rects, 1))

\* faulty variant: every colour channel of a channel map is replaced
NeutralPixelAllChannels(kind, p, avgR, avgG, avgB) ==
  IF kind = "normal" THEN FlatNormal ELSE <<avgR, avgG, avgB, 255>>

\* part_005:280 and 307-310: the new value of a pixel of the rectangle
NeutralPixel(kind, p, avgR, avgG, avgB) ==
  IF kind = "normal" THEN FlatNormal
  ELSE <<IF kind = "ao" THEN avgR ELSE p[1],
         IF kind = "roughness" THEN avgG ELSE p[2],
         IF kind = "metalness" THEN avgB ELSE p[3], 255>>

\* part_005:261-314: the canvas that becomes tex.image
NeutralizeImage(img, bounds, flipY, kind) ==
  LET r == NeutralRect(bounds, img.width, img.height, flipY)
      rects == sampleRects(r)
      avgR == IF kind = "normal" THEN 0 ELSE SampleAvg(img, rects, 1)
      avgG == IF kind = "normal" THEN 0 ELSE SampleAvg(img, rects, 2)
      avgB == IF kind = "normal" THEN 0 ELSE SampleAvg(img, rects, 3)
      id == getImageData(img, r.x, r.y, r.w, r.h)
  IN  putImageData(img,
                   [id EXCEPT !.data = [i \in DOMAIN id.data |->
                                          NeutralPixel(kind, id.data[i], avgR, avgG, avgB)]],
                   r.x, r.y)

\* part_005:247-252 and 316: handle(tex, kind) on the images of the textures; tex = 0
\* is a map the material does not have
HandleMap(imgs, tex, kind, bounds, flipY) ==
  IF tex = 0 \/ imgs[tex].width = 0 \/ imgs[tex].height = 0 THEN imgs
  ELSE [imgs EXCEPT ![tex] = NeutralizeImage(imgs[tex], bounds, flipY, kind)]

\* part_005:320-323
NeutralizeMaps(mat, imgs, bounds, flipY) ==
  LET i1 == HandleMap(imgs, mat.normalMap, "normal", bounds, flipY)
      i2 == HandleMap(i1, mat.roughnessMap, "roughness", bounds, flipY)
      i3 == HandleMap(i2, mat.metalnessMap, "metalness", bounds, flipY)
  IN  HandleMap(i3, mat.aoMap, "ao", bounds, flipY)

\* Four textures of MapSide x MapSide pixels; a material's roughness, metalness and
\* occlusion maps may be one texture, as GLTFLoader makes them.
MapSide == 8
MapTextures == 1..4

MapPattern(seed) ==
  Canvas(MapSide, MapSide,
         [i \in 0..(MapSide * MapSide - 1) |->
            <<(i * 37 + seed * 11) % 256, (i * i * 91 + seed * 53) % 256,
              (i * 29 + (i \div MapSide) * 67 + seed * 7) % 256, 255>>])

MapMaterials ==
  { [normalMap |-> n, roughnessMap |-> r, metalnessMap |-> m, aoMap |-> a] :
      n \in {0, 1}, r \in {0, 2}, m \in {0, 2, 3}, a \in {0, 2, 4} }

MapBounds ==
  { [ok |-> TRUE, minU |-> b[1], minV |-> b[2], maxU |-> b[3], maxV |-> b[4], den |-> UVDen] :
      b \in { <<16, 8, 56, 48>>, <<0, 0, 64, 64>>, <<24, 24, 24, 32>>, <<8, 16, 24, 40>>,
              <<-8, 56, 80, 72>>, <<8, 8, 56, 56>> } }

NeutralizeInputs ==
  { [op |-> "neutralize", mat |-> m, images |-> [t \in MapTextures |-> MapPattern(t)],
     bounds |-> b, flipY |-> f] : m \in MapMaterials, b \in MapBounds, f \in BOOLEAN }

NeutralizeChannelMaps ==
  /\ cIn.op = "neutralize"
  /\ cOut = <<>>
  /\ cOut' = [images |-> NeutralizeMaps(cIn.mat, cIn.images, cIn.bounds, cIn.flipY),
              rect |-> NeutralRect(cIn.bounds, MapSide, MapSide, cIn.flipY)]
  /\ UNCHANGED <<cIn, logoVars, appVars>>

RECURSIVE SumOver(_, _)
SumOver(S, f) ==
  IF S = {} THEN 0 ELSE LET x == CHOOSE y \in S : TRUE IN f[x] + SumOver(S \ {x}, f)

MapCoords == (0..(MapSide - 1)) \X (0..(MapSide - 1))
RectCoords(r) == { c \in MapCoords : InRect(r, c[1], c[2]) }

\* the pixels of r at most SampleBorder pixels from one of its edges
Rim(r) ==
  { c \in RectCoords(r) :
      \/ c[1] < r.x + SampleBorder \/ c[1] >= r.x + r.w - SampleBorder
      \/ c[2] < r.y + SampleBorder \/ c[2] >= r.y + r.h - SampleBorder }

\* the pixels outside r at most SampleBorder pixels from it
Ring(r) ==
  { c \in MapCoords \ RectCoords(r) :
      InRect([x |-> r.x - SampleBorder, y |-> r.y - SampleBorder,
              w |-> r.w + 2 * SampleBorder, h |-> r.h + 2 * SampleBorder], c[1], c[2]) }

\* the rounded mean of channel c of img over the pixels S
MeanOver(img, S, c) ==
  Round(SumOver(S, [p \in S |-> PixelAt(img, p[1], p[2])[c]]), Cardinality(S))

\* how many of the four strips along the edges of r hold the pixel
Strips(r, p) ==
  (IF p[2] < r.y + Min2(SampleBorder, r.h) THEN 1 ELSE 0)
  + (IF p[2] >= r.y + Max2(0, r.h - SampleBorder) THEN 1 ELSE 0)
  + (IF p[1] < r.x + Min2(SampleBorder, r.w) THEN 1 ELSE 0)
  + (IF p[1] >= r.x + Max2(0, r.w - SampleBorder) THEN 1 ELSE 0)

\* the rounded mean over the four strips, a pixel counted once per strip holding it
StripMean(img, r, c) ==
  Round(SumOver(Rim(r), [p \in Rim(r) |-> Strips(r, p) * PixelAt(img, p[1], p[2])[c]]),
        SumOver(Rim(r), [p \in Rim(r) |-> Strips(r, p)]))

KindsOf(mat, t) ==
  { k \in {"normal", "roughness", "metalness", "ao"} :
      \/ k = "normal" /\ mat.normalMap = t
      \/ k = "roughness" /\ mat.roughnessMap = t
      \/ k = "metalness" /\ mat.metalnessMap = t
      \/ k = "ao" /\ mat.aoMap = t }

KindChannel(k) == IF k = "ao" THEN 1 ELSE IF k = "roughness" THEN 2 ELSE 3

NeutralizeDone == cIn.op = "neutralize" /\ cOut # <<>>

\* what holds of every map whatever the average is: untouched when no slot has
\* it, unchanged outside the rectangle, flat inside for a normal map, the other
\* colour channels kept for a channel map
MapsKeptApart ==
  \A t \in MapTextures :
    LET ks == KindsOf(cIn.mat, t) IN
      /\ ks = {} => cOut.images[t] = cIn.images[t]
      /\ \A p \in MapCoords \ RectCoords(cOut.rect) :
           PixelAt(cOut.images[t], p[1], p[2]) = PixelAt(cIn.images[t], p[1], p[2])
      /\ ks = {"normal"} =>
           \A p \in RectCoords(cOut.rect) : PixelAt(cOut.images[t], p[1], p[2]) = FlatNormal
      /\ (ks # {} /\ "normal" \notin ks) =>
           \A p \in RectCoords(cOut.rect) : \A c \in 1..3 :
             (\A k \in ks : KindChannel(k) # c) =>
               PixelAt(cOut.images[t], p[1], p[2])[c] = PixelAt(cIn.images[t], p[1], p[2])[c]

\* C18 as stated: each present map is handled on its own; inside the rectangle a
\* normal map is flat, a roughness, metalness or AO map has its green, blue or
\* red channel set to the mean of that channel over the 2-pixel border of the
\* rectangle (the pixels just outside it, or its outermost pixels), the other
\* channels and the pixels outside are kept, a missing map is skipped.
C18_MeanOfBorder ==
  NeutralizeDone =>
    /\ MapsKeptApart
    /\ \A t \in MapTextures : \A k \in KindsOf(cIn.mat, t) \ {"normal"} :
         \A p \in RectCoords(cOut.rect) :
           \/ PixelAt(cOut.images[t], p[1], p[2])[KindChannel(k)]
                = MeanOver(cIn.images[t], Rim(cOut.rect), KindChannel(k))
           \/ /\ Ring(cOut.rect) # {}
              /\ PixelAt(cOut.images[t], p[1], p[2])[KindChannel(k)]
                   = MeanOver(cIn.images[t], Ring(cOut.rect), KindChannel(k))

\* C18, amended: as above, the channel being set to the rounded mean over the
\* four 2-pixel strips along the inside of the rectangle's edges, where a pixel
\* that lies in several strips counts once for each.
C18_MeanOfStrips ==
  NeutralizeDone =>
    /\ MapsKeptApart
    /\ \A t \in MapTextures : \A k \in KindsOf(cIn.mat, t) \ {"normal"} :
         \A p \in RectCoords(cOut.rect) :
           PixelAt(cOut.images[t], p[1], p[2])[KindChannel(k)]
             = StripMean(cIn.images[t], cOut.rect, KindChannel(k))

\* a 5 x 5 rectangle inside the maps; normal and roughness maps present, the
\* metalness and occlusion maps missing; the roughness map's green channel set to
\* the mean over the strips, which is not the mean over the rim
C18_Witness ==
  /\ NeutralizeDone
  /\ cOut.rect = [x |-> 2, y |-> 2, w |-> 5, h |-> 5]
  /\ cIn.mat = [normalMap |-> 1, roughnessMap |-> 2, metalnessMap |-> 0, aoMap |-> 0]
  /\ StripMean(cIn.images[2], cOut.rect, 2) # MeanOver(cIn.images[2], Rim(cOut.rect), 2)
  /\ PixelAt(cOut.images[1], 4, 3) = FlatNormal
  /\ PixelAt(cOut.images[2], 4, 3)[2] = StripMean(cIn.images[2], cOut.rect, 2)
  /\ PixelAt(cOut.images[2], 4, 3)[2] # PixelAt(cIn.images[2], 4, 3)[2]
  /\ cOut.images[3] = cIn.images[3] /\ cOut.images[4] = cIn.images[4]

\* Bounding box of the foreground, part_005:128-167: a MaskSide x MaskSide
\* rectangle of one background colour holding one block of another colour.
MaskSide == 16
MaskBackground == <<200, 100, 50, 255>>
BlockColours == { <<0, 0, 0, 255>>, <<228, 100, 50, 255>>, <<229, 100, 50, 255>> }
BlockOrigins == {0, 3, 6}
BlockSides == {0, 1, 7, 10}

Blocked(bx, by, bw, bh, colour) ==
  Canvas(MaskSide, MaskSide,
         [i \in 0..(MaskSide * MaskSide - 1) |->
            IF InRect([x |-> bx, y |-> by, w |-> bw, h |-> bh], i % MaskSide, i \div MaskSide)
              THEN colour ELSE MaskBackground])

BoxInputs ==
  { [op |-> "bbox", image |-> Blocked(bx, by, bw, bh, c)] :
      bx \in BlockOrigins, by \in BlockOrigins, bw \in BlockSides, bh \in BlockSides,
      c \in BlockColours }

BoundingBox ==
  /\ cIn.op = "bbox"
  /\ cOut = <<>>
  /\ \E m \in { buildForegroundMask(cIn.image,
                    [r |-> MaskBackground[1], g |-> MaskBackground[2],
                     b |-> MaskBackground[3], n |-> 1], MaskThreshold) } :
        cOut' = [mask |-> m, box |-> largestMaskBoundingBox(m)]
  /\ UNCHANGED <<cIn, logoVars, appVars>>

\* the pixels whose squared RGB distance to the background exceeds 28 squared
Foreground(image) ==
  { <<x, y>> \in (0..(image.width - 1)) \X (0..(image.height - 1)) :
      LET p == PixelAt(image, x, y) IN
        (p[1] - MaskBackground[1]) * (p[1] - MaskBackground[1])
        + (p[2] - MaskBackground[2]) * (p[2] - MaskBackground[2])
        + (p[3] - MaskBackground[3]) * (p[3] - MaskBackground[3])
          > MaskThreshold * MaskThreshold }

\* the tight box of a non-empty set of pixels, padded by round(8 %) of its size
\* on both sides of each axis and then cut to [0, width) x [0, height)
PaddedThenClamped(fg, width, height) ==
  LET minX == SetMin({ c[1] : c \in fg })
      maxX == SetMax({ c[1] : c \in fg })
      minY == SetMin({ c[2] : c \in fg })
      maxY == SetMax({ c[2] : c \in fg })
      padX == Round((maxX - minX + 1) * PadPercent, 100)
      padY == Round((maxY - minY + 1) * PadPercent, 100)
      x0 == Max2(0, minX - padX)
      y0 == Max2(0, minY - padY)
      x1 == Min2(width, maxX + 1 + padX)
      y1 == Min2(height, maxY + 1 + padY)
  IN  [ok |-> TRUE, x |-> x0, y |-> y0, w |-> x1 - x0, h |-> y1 - y0]

\* C17: the box is null exactly when no pixel is foreground; otherwise it is the
\* tight box of the foreground padded by round(8 %) of its size on both sides of
\* each axis and then clamped to the mask, so it lies inside the mask and holds
\* every foreground pixel.
C17_PaddedThenClampedBox ==
  (cIn.op = "bbox" /\ cOut # <<>>) =>
    LET fg == Foreground(cIn.image) IN
      /\ cOut.box.ok = (fg # {})
      /\ fg # {} =>
            /\ cOut.box = PaddedThenClamped(fg, cIn.image.width, cIn.image.height)
            /\ cOut.box.x >= 0 /\ cOut.box.y >= 0
            /\ cOut.box.x + cOut.box.w <= cIn.image.width
            /\ cOut.box.y + cOut.box.h <= cIn.image.height
            /\ \A c \in fg : InRect(cOut.box, c[1], c[2])

\* UV bounds, part_005:48-116: geometries with and without UVs, index and groups,
\* a material slot and a texture transform (repeat may mirror, rotation is 0).
BoundsGeometries ==
  { GeomLargeIsland, GeomTwoGroups, GeomMediumIsland, GeomNoMatchingGroup, GeomNoUv,
    \* no groups, the index buffer names three of the five vertices
    Geometry(TRUE, << <<8, 8>>, <<24, 8>>, <<8, 24>>, <<60, 60>>, <<0, 2>> >>,
             TRUE, <<0, 1, 2>>, <<>>),
    \* two groups for slots 1 and 2 over a part of the index buffer
    Geometry(TRUE, << <<8, 8>>, <<24, 8>>, <<8, 24>>, <<60, 60>>, <<0, 2>>, <<40, 4>> >>,
             TRUE, <<0, 1, 2, 3, 4, 5>>, << Group(0, 3, 1), Group(3, 2, 2) >>),
    \* a group whose materialIndex is not a number, and one for slot 1
    Geometry(TRUE, << <<8, 8>>, <<24, 8>>, <<8, 24>>, <<60, 60>> >>,
             FALSE, <<>>, << Group(0, 2, -1), Group(2, 2, 1) >>),
    \* a group of slot 0 that runs past the index buffer, which names a vertex
    \* the UV attribute does not have
    Geometry(TRUE, << <<8, 8>>, <<24, 8>> >>, TRUE, <<1, 7>>, << Group(1, 4, 0) >>),
    \* a UV attribute without vertices
    Geometry(TRUE, <<>>, FALSE, <<>>, <<>>) }

BoundsSlots == 0..2
BoundsRepeats == {UVDen, UVDen \div 2, -UVDen}
BoundsOffsets == {0, 16}

BoundsInputs ==
  { [op |-> "bounds", geom |-> g, materialIndex |-> m, texture |-> Texture(1, TRUE, ru, rv, ou, ov)] :
      g \in BoundsGeometries, m \in BoundsSlots, ru \in BoundsRepeats, rv \in BoundsRepeats,
      ou \in BoundsOffsets, ov \in BoundsOffsets }

ComputeBounds ==
  /\ cIn.op = "bounds"
  /\ cOut = <<>>
  /\ cOut' = [raw |-> computeRawUvBoundsForMaterial(cIn.geom, cIn.materialIndex),
              transformed |-> computeUvBoundsForMaterial(cIn.geom, cIn.materialIndex, cIn.texture)]
  /\ UNCHANGED <<cIn, logoVars, appVars>>

BoundsDone == cIn.op = "bounds" /\ cOut # <<>>

\* applyTransform of part_005:52-68 with rotation 0, over UVDen^2
TransformedU(geom, vi, texture) == geom.uv[vi + 1][1] * texture.repU + texture.offU * UVDen
TransformedV(geom, vi, texture) == geom.uv[vi + 1][2] * texture.repV + texture.offV * UVDen

\* the vertices of the groups that carry the slot (or no numeric slot), or of the
\* whole buffer when there are no groups
SlotVertices(geom, materialIndex) ==
  { vi \in 0..(Len(geom.uv) - 1) :
      \E a \in 0..(Len(geom.index) + Len(geom.uv)) :
        /\ IF geom.hasIndex THEN a < Len(geom.index) /\ geom.index[a + 1] = vi ELSE a = vi
        /\ \/ geom.groups = <<>>
           \/ \E gi \in 1..Len(geom.groups) :
                /\ geom.groups[gi].materialIndex \in {-1, materialIndex}
                /\ a >= geom.groups[gi].start
                /\ a < geom.groups[gi].start + geom.groups[gi].count }

WholeMesh(geom) ==
  IF geom.hasIndex
    THEN { geom.index[a] : a \in 1..Len(geom.index) } \cap (0..(Len(geom.uv) - 1))
    ELSE 0..(Len(geom.uv) - 1)

NoGroupForSlot(geom, materialIndex) ==
  /\ geom.groups # <<>>
  /\ \A gi \in 1..Len(geom.groups) : geom.groups[gi].materialIndex \notin {-1, materialIndex}

\* both results are the bounds of the vertices S
BoundsAreOf(S) ==
  /\ cOut.raw = BoundsOf({ cIn.geom.uv[vi + 1][1] : vi \in S },
                         { cIn.geom.uv[vi + 1][2] : vi \in S }, UVDen)
  /\ cOut.transformed = BoundsOf({ TransformedU(cIn.geom, vi, cIn.texture) : vi \in S },
                                 { TransformedV(cIn.geom, vi, cIn.texture) : vi \in S },
                                 UVDen * UVDen)

WholeBufferWithoutGroups ==
  (cIn.geom.hasUv /\ cIn.geom.groups = <<>> /\ WholeMesh(cIn.geom) # {})
    => BoundsAreOf(WholeMesh(cIn.geom))

\* C20 as stated: with groups of which none carries the slot, the functions
\* return the bounds of all vertices of the mesh; without groups, the bounds of
\* the whole index buffer (or of all vertices when there is no index).
C20_FallbackToWholeMesh ==
  BoundsDone =>
    /\ (cIn.geom.hasUv /\ NoGroupForSlot(cIn.geom, cIn.materialIndex)
          /\ WholeMesh(cIn.geom) # {}) => BoundsAreOf(WholeMesh(cIn.geom))
    /\ WholeBufferWithoutGroups

\* C20, amended: with groups of which none carries the slot, no vertex is visited
\* and both functions return null; without groups, as above.
C20_NoGroupForSlotIsNull ==
  BoundsDone =>
    /\ NoGroupForSlot(cIn.geom, cIn.materialIndex) => (~cOut.raw.ok /\ ~cOut.transformed.ok)
    /\ WholeBufferWithoutGroups

\* slot 0 of a geometry with UVs whose only group carries slot 1: null
C20_Witness ==
  /\ BoundsDone
  /\ cIn.geom = GeomNoMatchingGroup /\ cIn.materialIndex = 0
  /\ NoGroupForSlot(cIn.geom, cIn.materialIndex) /\ WholeMesh(cIn.geom) # {}
  /\ ~cOut.raw.ok /\ ~cOut.transformed.ok

\* The rectangle of a channel map beside the rectangle of the base map, for the
\* same bounds, size and flipY: part_005:253-271 and part_005:178-199.
MapRectInputs == { [r EXCEPT !.op = "maprect"] : r \in RectInputs }

MapRectOf ==
  /\ cIn.op = "maprect"
  /\ cOut = <<>>
  /\ cIn.size[1] > 0 /\ cIn.size[2] > 0
  /\ cOut' = [neutral |-> NeutralRect(cIn.bounds, cIn.size[1], cIn.size[2], cIn.flipY),
              base |-> SafeRect(UvPixelRect(cIn.bounds, cIn.size[1], cIn.size[2], cIn.flipY),
                                cIn.size[1], cIn.size[2])]
  /\ UNCHANGED <<cIn, logoVars, appVars>>

\* C21: for the same UV bounds, width, height and flipY the rectangle the
\* neutralizer flattens is the rectangle the base-map conversion works on.
C21_SameRectAsBaseMap ==
  (cIn.op = "maprect" /\ cOut # <<>>) => cOut.neutral = cOut.base

\* One targeted slot with channel maps: part_005:333-461 for a slot whose base
\* map is a 1024 x 1024 atlas and whose material has a normal map and a packed
\* occlusion/roughness/metalness map, every canvas getting its context.
DecalGeometries ==
  { Quad(8, 8, 24, 24), Quad(8, 8, 11, 11), Quad(8, 8, 13, 40), GeomTwoGroups,
    GeomNoMatchingGroup, GeomNoUv }

DecalMaterials ==
  { StandardMaterial(TRUE, 1, n, r, m, a, Black, 1, 0, White) :
      n \in {0, 2}, r \in {0, 3}, m \in {0, 3}, a \in {0, 3, 4} }

DecalInputs ==
  { [op |-> "decal", geom |-> g, material |-> m, flipY |-> f] :
      g \in DecalGeometries, m \in DecalMaterials, f \in BOOLEAN }

DecalGraph(geom, material, flipY) ==
  [meshes |-> << Mesh(FALSE, <<1>>, geom) >>,
   materials |-> << material >>,
   textures |-> << Texture(1, flipY, UVDen, UVDen, 0, 0), Texture(2, flipY, UVDen, UVDen, 0, 0),
                   Texture(3, flipY, UVDen, UVDen, 0, 0), Texture(0, flipY, UVDen, UVDen, 0, 0) >>,
   images |-> << Image("file", 1024, 1024, 0, 0), Image("file", 1024, 1024, 0, 0),
                 Image("file", 512, 512, 0, 0) >>,
   maps |-> {}, imgs |-> {}, registry |-> <<>>, log |-> <<>>, aborted |-> FALSE]

ApplyDecal ==
  /\ cIn.op = "decal"
  /\ cOut = <<>>
  /\ cOut' = [g |-> ReplaceSlot(DecalGraph(cIn.geom, cIn.material, cIn.flipY), 1, 0, 1,
                                [main |-> TRUE, fb |-> TRUE, helper |-> TRUE])]
  /\ UNCHANGED <<cIn, logoVars, appVars>>

DecalDone == cIn.op = "decal" /\ cOut # <<>>

\* the channel maps of the slot's material that have an image
PresentChannelMaps(g) ==
  LET mat == g.materials[SlotMaterial(g, 1, 0)] IN
  { t \in {mat.normalMap, mat.roughnessMap, mat.metalnessMap, mat.aoMap} :
      t # 0 /\ g.textures[t].image # 0 }

\* C22: an application through a UV-aware path (the log says uv-composite or
\* dedicated-texture) leaves every present normal, roughness, metalness and AO
\* map of the slot's material with a flattened canvas as its image.  (Whether the
\* neutralizer ran before or after the base map was installed does not show in
\* the state the traversal leaves.)
C22_FlattenedOnUvAwarePaths ==
  (DecalDone /\ cOut.g.log[1].method \in {"uv-composite", "dedicated-texture"}) =>
    \A t \in PresentChannelMaps(cOut.g) :
      cOut.g.images[cOut.g.textures[t].image].kind = "flat"

FnInputs ==
  SelectInputs \cup DedicatedInputs \cup RectInputs \cup BackgroundInputs \cup BoxInputs
    \cup NeutralizeInputs \cup BoundsInputs \cup MapRectInputs
    \cup DecalInputs

InitFn ==
  /\ IdleLogo
  /\ cIn \in FnInputs
  /\ cOut = <<>>
  /\ IdleApp

NextFn ==
  \/ SelectStrategy
  \/ ApplyToTinyIsland
  \/ PixelRectOf
  \/ EstimateBackground
  \/ BoundingBox
  \/ NeutralizeChannelMaps
  \/ ComputeBounds
  \/ MapRectOf
  \/ ApplyDecal

SpecFn == InitFn /\ [][NextFn]_vars


-----------------------------------------------------------------------------
(* Model and scenario loading: loadGltfModel, disposeModel, switchModel and   *)
(* setScenarioManaged of part_001 with the scenario manager of part_000.      *)
(* Every loader.load call is an entry of `loads`; its callback runs later, as *)
(* an action of its own, with the outcome the loader reports.  An object      *)
(* added to the scene is identified by the load that delivered it.  The       *)
(* contents of a model are the subject of Spec and are left out here.         *)

MaxSwitches == 1
MaxScenarioChanges == 1
MaxLoads == 2 * (1 + MaxSwitches) + MaxScenarioChanges
LoadIds == 1..MaxLoads

ModelUrls == {"kosha4.glb", "kosha2.glb", "model.fbx"}
ScenarioKeys == {"none", "modern_garage", "sci-fi_garage"}
\* onLoad with gltf.scene, onLoad without any scene, onError
Outcomes == {"scene", "no scene", "error"}

\* part_001:461-463
IsGltf(url) == url \in {"kosha4.glb", "kosha2.glb"}

ScenarioLoad(key, n) == [kind |-> "scenario", key |-> key, st |-> "pending", onDone |-> n]

\* the state a handler works on
ViewerState == [scene |-> scene, loads |-> loads, viewer |-> viewer, doneCalled |-> doneCalled]

\* the onDone of model load n, () => overlay.hide() (part_001:242, 465);
\* n = 0 is the absent callback of onDone?.()
onDone(s, n) ==
  IF n = 0 THEN s
  ELSE [s EXCEPT !.viewer.overlay = "hidden", !.doneCalled = @ \cup {n}]

\* part_000:21-34
disposeScenario(s) ==
  IF s.viewer.scenarioRoot = 0 THEN s
  ELSE [s EXCEPT !.scene = @ \ {s.viewer.scenarioRoot}, !.viewer.scenarioRoot = 0]

\* part_000:36-47, up to the call of loader.load
setScenario(s, key, n) ==
  LET d == disposeScenario(s)
      k == [d EXCEPT !.viewer.managerScenarioKey = key]
  IN  IF key = "none" THEN k
      ELSE [k EXCEPT !.loads = Append(@, ScenarioLoad(key, n))]

\* part_001:741-776, up to the call of loader.load
setScenarioManaged(s, key, n) ==
  setScenario([s EXCEPT !.viewer.currentScenarioKey = key], key, n)

\* part_001:430-443
disposeModel(s) ==
  IF s.viewer.modelRoot = 0 THEN s
  ELSE [s EXCEPT !.scene = @ \ {s.viewer.modelRoot}, !.viewer.modelRoot = 0]

\* part_001:374-383, up to the call of loader.load
loadGltfModel(s, url) == [s EXCEPT !.loads = Append(@, ModelLoad(url, Len(s.loads) + 1))]

\* part_001:445-473
switchModel(s, url) ==
  LET shown == [s EXCEPT !.viewer.overlay = "shown"]
      d == disposeModel(shown)
  IN  IF IsGltf(url) THEN loadGltfModel(d, url)
      ELSE [d EXCEPT !.viewer.overlay = "hidden"]

\* part_001:384-417 (onLoad) and 426 (onError) of model load i
modelLoaded(s, i, outcome) ==
  LET t == [s EXCEPT !.loads[i].st = outcome] IN
  IF outcome = "scene"
  THEN LET added == [t EXCEPT !.scene = @ \cup {i}, !.viewer.modelRoot = i] IN
       IF added.viewer.currentScenarioKey # "none"
       THEN setScenarioManaged(added, added.viewer.currentScenarioKey, t.loads[i].onDone)
       ELSE onDone(added, t.loads[i].onDone)
  ELSE onDone(t, t.loads[i].onDone)

\* part_000:49-57 (onLoad) and 66 (onError) of scenario load i, with the
\* onDone of part_001:751-774 around the caller's
scenarioLoaded(s, i, outcome) ==
  LET t == [s EXCEPT !.loads[i].st = outcome] IN
  CASE outcome = "scene" ->
         onDone([t EXCEPT !.viewer.scenarioRoot = i, !.scene = @ \cup {i}], t.loads[i].onDone)
    [] outcome = "no scene" -> t
    [] outcome = "error" -> onDone(t, t.loads[i].onDone)

Install(s) ==
  /\ scene' = s.scene
  /\ loads' = s.loads
  /\ viewer' = s.viewer
  /\ doneCalled' = s.doneCalled

\* part_001:246-250, the model select
SwitchModel(url) ==
  /\ asked.switches < MaxSwitches
  /\ Install(switchModel(ViewerState, url))
  /\ asked' = [asked EXCEPT !.switches = @ + 1,
                            !.model = IF IsGltf(url) THEN Len(loads) + 1 ELSE 0]
  /\ UNCHANGED <<logoVars, composeVars, cinematic, regionVars>>

\* part_001:300-305, the scenario select
SetScenarioManaged(key) ==
  /\ asked.scenarios < MaxScenarioChanges
  /\ Install(setScenarioManaged(ViewerState, key, 0))
  /\ asked' = [asked EXCEPT !.scenarios = @ + 1]
  /\ UNCHANGED <<logoVars, composeVars, cinematic, regionVars>>

ModelLoadCompletes(i, outcome) ==
  /\ i <= Len(loads)
  /\ loads[i].kind = "model"
  /\ loads[i].st = "pending"
  /\ Install(modelLoaded(ViewerState, i, outcome))
  /\ UNCHANGED <<asked, logoVars, composeVars, cinematic, regionVars>>

ScenarioLoadCompletes(i, outcome) ==
  /\ i <= Len(loads)
  /\ loads[i].kind = "scenario"
  /\ loads[i].st = "pending"
  /\ Install(scenarioLoaded(ViewerState, i, outcome))
  /\ UNCHANGED <<asked, logoVars, composeVars, cinematic, regionVars>>

LoadCompletes(i) ==
  \E outcome \in Outcomes : ModelLoadCompletes(i, outcome) \/ ScenarioLoadCompletes(i, outcome)

NextViewer ==
  \/ \E url \in ModelUrls : SwitchModel(url)
  \/ \E key \in ScenarioKeys : SetScenarioManaged(key)
  \/ \E i \in LoadIds, outcome \in Outcomes : ModelLoadCompletes(i, outcome)
  \/ \E i \in LoadIds, outcome \in Outcomes : ScenarioLoadCompletes(i, outcome)

SpecViewer == Init /\ [][NextViewer]_vars

\* The loader reports every load it was given: it calls onLoad or onError.
SpecViewerFair == SpecViewer /\ \A i \in LoadIds : WF_vars(LoadCompletes(i))

AllLoaded == \A i \in 1..Len(loads) : loads[i].st # "pending"

ScenarioRoots == {o \in scene : loads[o].kind = "scenario"}

ModelWrappers == {o \in scene : loads[o].kind = "model"}

LastScenarioLoad ==
  LET ids == {i \in 1..Len(loads) : loads[i].kind = "scenario"}
  IN  IF ids = {} THEN 0 ELSE CHOOSE i \in ids : \A j \in ids : j <= i

\* C26: the scene holds at most one scenario root, and once every load has
\* completed the root is that of the key requested last: none for 'none',
\* and the group of the last scenario load when that load delivered a scene.
C26_OneScenarioRoot ==
  /\ Cardinality(ScenarioRoots) <= 1
  /\ AllLoaded =>
       IF viewer.managerScenarioKey = "none" THEN ScenarioRoots = {}
       ELSE loads[LastScenarioLoad].st = "scene" =>
              (ScenarioRoots = {LastScenarioLoad} /\ viewer.scenarioRoot = LastScenarioLoad)

\* C27: the scene holds at most one model wrapper, and once every load has
\* completed modelRoot is the wrapper of the model requested last (when that
\* load delivered a scene).
C27_OneModelWrapper ==
  /\ Cardinality(ModelWrappers) <= 1
  /\ (AllLoaded /\ asked.model # 0 /\ loads[asked.model].st = "scene") =>
       (ModelWrappers = {asked.model} /\ viewer.modelRoot = asked.model)

\* C28: every model load started by initialize or switchModel leads to a call
\* of its onDone, which hides the overlay, whatever the outcomes of the model
\* load and of the scenario load that follows it.
C28_OverlayEventuallyHidden ==
  \A i \in LoadIds :
    (i <= Len(loads) /\ loads[i].kind = "model") ~> (i \in doneCalled)


-----------------------------------------------------------------------------
(* Cinematic camera controller, part_002: the takes cycle of update with      *)
(* enable, disable, setTakes and setManualControlActive.  Time is counted in  *)
(* units of 0.4 s, the largest unit in which both default durations are       *)
(* whole.  The camera pose that update computes from the take, the phase and  *)
(* the clock is an output and is not kept; timeSeconds and the azimuth drift  *)
(* feed only that pose.                                                       *)

DefaultDwell == 10
DefaultTransition == 4

\* an optional number: <<>> is null, <<n>> the number n
Null == <<>>

Take(dwell, transition) == [truthy |-> TRUE, dwellSeconds |-> dwell, transitionSeconds |-> transition]
NoTake == [truthy |-> FALSE, dwellSeconds |-> Null, transitionSeconds |-> Null]

MaxTakes == 3

\* the lists handed to setTakes; an entry may be null
TakeLists ==
  { <<>>,
    <<Take(Null, Null)>>,
    <<Take(<<2>>, <<1>>), NoTake, Take(<<1>>, Null)>>,
    [i \in 1..MaxTakes |-> Take(<<i % 3>>, <<i % 2>>)] }

\* update's deltaSeconds: negative, zero, small, larger than a phase
Deltas == {-1, 0, 1, 3}

Truthy(t) == t.truthy

\* part_002:137, 167: Math.max(0, deltaSeconds || 0)
Elapsed(delta) == IF delta > 0 THEN delta ELSE 0

\* part_002:163-164
DwellOf(a) == IF a.dwellSeconds # Null THEN a.dwellSeconds[1] ELSE DefaultDwell
TransitionOf(a) == IF a.transitionSeconds # Null THEN a.transitionSeconds[1] ELSE DefaultTransition

\* faulty variant: the index moves on when the dwell ends
AdvancePhaseAtDwellEnd(c, delta) ==
  LET a == c.takes[c.currentTakeIndex + 1]
      nextIndex == (c.currentTakeIndex + 1) % Len(c.takes)
      t == c.phaseTime + Elapsed(delta)
  IN  CASE c.phase = "dwell" /\ t >= DwellOf(a) ->
             [c EXCEPT !.phase = "transition", !.currentTakeIndex = nextIndex, !.phaseTime = 0]
        [] c.phase = "transition" /\ t >= TransitionOf(a) ->
             [c EXCEPT !.phase = "dwell", !.phaseTime = 0]
        [] OTHER -> [c EXCEPT !.phaseTime = t]

\* part_002:159-182
AdvancePhase(c, delta) ==
  LET a == c.takes[c.currentTakeIndex + 1]
      nextIndex == (c.currentTakeIndex + 1) % Len(c.takes)
      t == c.phaseTime + Elapsed(delta)
  IN  CASE c.phase = "dwell" /\ t >= DwellOf(a) ->
             [c EXCEPT !.phase = "transition", !.phaseTime = 0]
        [] c.phase = "transition" /\ t >= TransitionOf(a) ->
             [c EXCEPT !.phase = "dwell", !.currentTakeIndex = nextIndex, !.phaseTime = 0]
        [] OTHER -> [c EXCEPT !.phaseTime = t]

\* part_002:135-182; controls is never null (part_001:171)
update(c, delta, subjectRoot) ==
  IF ~c.enabled \/ ~subjectRoot THEN c
  ELSE IF c.manualOverride THEN c
  ELSE IF c.takesActive /\ Len(c.takes) > 0 THEN AdvancePhase(c, delta)
  ELSE c

\* part_002:49-59
enable(c) ==
  LET e == [c EXCEPT !.enabled = TRUE, !.phaseTime = 0, !.phase = "dwell"]
  IN  IF Len(c.takes) > 0 THEN [e EXCEPT !.takesActive = TRUE, !.currentTakeIndex = 0] ELSE e

\* part_002:61-64
disable(c) == [c EXCEPT !.enabled = FALSE]

\* part_002:122-128
setTakes(c, list) ==
  LET kept == SelectSeq(list, Truthy)
  IN  [c EXCEPT !.takes = kept, !.currentTakeIndex = 0, !.phase = "dwell",
                !.phaseTime = 0, !.takesActive = Len(kept) > 0]

\* part_002:102-109
setManualControlActive(c, active) == [c EXCEPT !.manualOverride = active]

Update(delta, subjectRoot) ==
  /\ cinematic' = [update(cinematic, delta, subjectRoot) EXCEPT !.op = "update"]
  /\ UNCHANGED <<logoVars, composeVars, viewerVars, regionVars>>

Enable ==
  /\ cinematic' = [enable(cinematic) EXCEPT !.op = "enable"]
  /\ UNCHANGED <<logoVars, composeVars, viewerVars, regionVars>>

Disable ==
  /\ cinematic' = [disable(cinematic) EXCEPT !.op = "disable"]
  /\ UNCHANGED <<logoVars, composeVars, viewerVars, regionVars>>

SetTakes(list) ==
  /\ cinematic' = [setTakes(cinematic, list) EXCEPT !.op = "setTakes"]
  /\ UNCHANGED <<logoVars, composeVars, viewerVars, regionVars>>

SetManualControlActive(active) ==
  /\ cinematic' = [setManualControlActive(cinematic, active) EXCEPT !.op = "manual"]
  /\ UNCHANGED <<logoVars, composeVars, viewerVars, regionVars>>

\* a frame of the animation loop with a model loaded and time passing
Frame == \E delta \in {d \in Deltas : d > 0} : Update(delta, TRUE)

NextCinematic ==
  \/ \E delta \in Deltas, subjectRoot \in BOOLEAN : Update(delta, subjectRoot)
  \/ Enable
  \/ Disable
  \/ \E list \in TakeLists : SetTakes(list)
  \/ \E active \in BOOLEAN : SetManualControlActive(active)

SpecCinematic == Init /\ [][NextCinematic]_vars

\* part_001:361-370: animate calls update on every frame and asks for the next
SpecCinematicFair == SpecCinematic /\ WF_vars(Frame)

Playing == cinematic.enabled /\ ~cinematic.manualOverride /\ Len(cinematic.takes) > 0

IndexInRange ==
  Len(cinematic.takes) > 0 => cinematic.currentTakeIndex \in 0..(Len(cinematic.takes) - 1)

\* what one call of update may do to the phase, its timer and the index
UpdateStep ==
  cinematic'.op = "update" =>
    IF cinematic.manualOverride \/ ~Playing
    THEN /\ cinematic'.phase = cinematic.phase
         /\ cinematic'.phaseTime = cinematic.phaseTime
         /\ cinematic'.currentTakeIndex = cinematic.currentTakeIndex
    ELSE \/ /\ cinematic'.phase = cinematic.phase
            /\ cinematic'.currentTakeIndex = cinematic.currentTakeIndex
         \/ /\ cinematic.phase = "dwell" /\ cinematic'.phase = "transition"
            /\ cinematic'.currentTakeIndex = cinematic.currentTakeIndex
         \/ /\ cinematic.phase = "transition" /\ cinematic'.phase = "dwell"
            /\ cinematic'.currentTakeIndex =
                 (cinematic.currentTakeIndex + 1) % Len(cinematic.takes)

\* C29: with a non-empty takes list the index stays within the list; a call
\* of update either keeps phase and index, or ends the dwell (index kept), or
\* ends the transition (index plus one, modulo the length); under manual
\* override, or when not playing, update changes none of phase, timer and
\* index; and once the calls other than update have stopped with the
\* controller playing, every take of the list is reached again and again.
C29_TakesCycleInOrder ==
  /\ []IndexInRange
  /\ [][UpdateStep]_vars
  /\ \A i \in 0..(MaxTakes - 1) :
       <>[](Playing /\ cinematic.op = "update" /\ i < Len(cinematic.takes))
         => []<>(cinematic.currentTakeIndex = i)

C29_Witness ==
  /\ Playing
  /\ cinematic.op = "update"
  /\ Len(cinematic.takes) = MaxTakes
  /\ cinematic.currentTakeIndex = MaxTakes - 1
  /\ cinematic.phase = "transition"


-----------------------------------------------------------------------------
(* Region highlight, main.js:1591-1649, for a model whose meshes carry region *)
(* names (regionNameToMeshes is not empty; with no region discovered          *)
(* setActiveRegion only toggles the heuristic volume boxes and touches no     *)
(* material).  A mesh is the sequence of its material slots, a material the   *)
(* index of its record in regionMaterials; _origEmissive and                  *)
(* _origEmissiveIntensity of userData are optional numbers.  Intensities are  *)
(* in tenths.                                                                 *)

HighlightHex == 16097803
HighlightIntensity == 8

RegionMaterial(hasEmissive, emissive, intensity) ==
  [hasEmissive |-> hasEmissive, emissive |-> emissive, emissiveIntensity |-> intensity,
   origEmissive |-> Null, origEmissiveIntensity |-> Null]

\* the emissive state a model's materials can come with
EmissiveStates == {<<0, 10>>, <<255, 5>>}

\* region key -> meshes: one material per mesh; two meshes of a region with
\* the same material; two slots of a mesh with the same material beside a
\* material without emissive
RegionLayouts ==
  { [hood |-> << <<1>> >>, roof |-> << <<2>>, <<3>> >>],
    [hood |-> << <<1>>, <<1>> >>, roof |-> << <<2>> >>],
    [hood |-> << <<1, 3, 1>> >>, roof |-> << <<2>> >>] }

RegionKeys == {"none", "hood", "roof", "trunk"}

\* main.js:1598, 1603: regionNameToMeshes[key] || []
MeshesOf(key) == IF key \in DOMAIN regionNameToMeshes THEN regionNameToMeshes[key] ELSE <<>>

\* main.js:1626-1634, one material of the loop
HighlightMaterial(ms, m) ==
  IF ~ms[m].hasEmissive THEN ms
  ELSE [ms EXCEPT ![m].origEmissive = <<ms[m].emissive>>,
                  ![m].origEmissiveIntensity = <<ms[m].emissiveIntensity>>,
                  ![m].emissive = HighlightHex,
                  ![m].emissiveIntensity = HighlightIntensity]

\* main.js:1640-1648, one material of the loop
RestoreMaterial(ms, m) ==
  IF ~ms[m].hasEmissive THEN ms
  ELSE [ms EXCEPT ![m].emissive = IF ms[m].origEmissive # Null THEN ms[m].origEmissive[1] ELSE @,
                  ![m].emissiveIntensity =
                    IF ms[m].origEmissiveIntensity # Null THEN ms[m].origEmissiveIntensity[1] ELSE @]

RECURSIVE HighlightSlots(_, _, _)
HighlightSlots(ms, mats, n) ==
  IF n > Len(mats) THEN ms ELSE HighlightSlots(HighlightMaterial(ms, mats[n]), mats, n + 1)

RECURSIVE RestoreSlots(_, _, _)
RestoreSlots(ms, mats, n) ==
  IF n > Len(mats) THEN ms ELSE RestoreSlots(RestoreMaterial(ms, mats[n]), mats, n + 1)

\* main.js:1624-1635
applyMeshHighlight(ms, mesh) == HighlightSlots(ms, mesh, 1)

\* main.js:1638-1649
restoreMeshHighlight(ms, mesh) == RestoreSlots(ms, mesh, 1)

\* main.js:1604
RECURSIVE HighlightMeshes(_, _, _)
HighlightMeshes(ms, meshList, n) ==
  IF n > Len(meshList) THEN ms
  ELSE HighlightMeshes(applyMeshHighlight(ms, meshList[n]), meshList, n + 1)

\* main.js:1599
RECURSIVE RestoreMeshes(_, _, _)
RestoreMeshes(ms, meshList, n) ==
  IF n > Len(meshList) THEN ms
  ELSE RestoreMeshes(restoreMeshHighlight(ms, meshList[n]), meshList, n + 1)

NoHighlight == [region |-> "none", materials |-> <<>>]

\* main.js:1591-1607, the select of main.js:375
SetActiveRegion(key) ==
  LET wasActive == activeRegionKey # "none"
      restored == IF wasActive THEN RestoreMeshes(regionMaterials, MeshesOf(activeRegionKey), 1)
                  ELSE regionMaterials
      meshList == IF key = "none" THEN <<>> ELSE MeshesOf(key)
      shows == Len(meshList) > 0
  IN  /\ regionNameToMeshes # <<>>
      /\ regionMaterials' = HighlightMeshes(restored, meshList, 1)
      /\ activeRegionKey' = IF shows THEN key ELSE "none"
      /\ highlightBefore' =
           [shown |-> IF shows THEN [region |-> key, materials |-> restored] ELSE NoHighlight,
            cleared |-> IF wasActive THEN highlightBefore.shown ELSE NoHighlight]
      /\ UNCHANGED <<regionNameToMeshes, logoVars, composeVars, viewerVars, cinematic>>

InitRegion ==
  /\ IdleLogo
  /\ cIn = <<>>
  /\ cOut = <<>>
  /\ IdleViewer
  /\ IdleCinematic
  /\ regionNameToMeshes \in RegionLayouts
  /\ \E a \in EmissiveStates, b \in EmissiveStates :
       regionMaterials = << RegionMaterial(TRUE, a[1], a[2]), RegionMaterial(TRUE, b[1], b[2]),
                            RegionMaterial(FALSE, 0, 10) >>
  /\ activeRegionKey = "none"
  /\ highlightBefore = [shown |-> NoHighlight, cleared |-> NoHighlight]

NextRegion == \E key \in RegionKeys : SetActiveRegion(key)

SpecRegion == InitRegion /\ [][NextRegion]_vars

RECURSIVE MaterialsOfMeshes(_, _)
MaterialsOfMeshes(meshList, n) ==
  IF n > Len(meshList) THEN {}
  ELSE {meshList[n][k] : k \in 1..Len(meshList[n])} \cup MaterialsOfMeshes(meshList, n + 1)

\* C30: when setActiveRegion has cleared the highlight of a region, every
\* material of that region's meshes (that the call did not highlight again
\* for the new region) has the emissive colour and intensity it had before
\* the region was highlighted.
C30_HighlightRoundTrip ==
  highlightBefore.cleared.region # "none" =>
    \A m \in MaterialsOfMeshes(MeshesOf(highlightBefore.cleared.region), 1)
             \ MaterialsOfMeshes(MeshesOf(activeRegionKey), 1) :
      regionMaterials[m].hasEmissive =>
        /\ regionMaterials[m].emissive = highlightBefore.cleared.materials[m].emissive
        /\ regionMaterials[m].emissiveIntensity =
             highlightBefore.cleared.materials[m].emissiveIntensity

====
